---------------------------- MODULE Spec2Model ----------------------------
(***************************************************************************)
(* StreamManager (src/base_station/stream_manager.py): the registry of     *)
(* stream records, the per-stream capture workers and the consumer API,    *)
(* as a state machine of Python threads.  Every read or write of shared    *)
(* state (self.streams, self.capture_threads, self.active, a record's      *)
(* fields, a record's Queue) is one step of the thread that performs it;   *)
(* a thread's purely local computation is folded into the step that        *)
(* follows.  Time is not modelled: a sleep is a step boundary, and         *)
(* Thread.join(timeout=2) returns when the joined thread has ended or,     *)
(* the timeout having passed, while that thread is held up in a blocking   *)
(* call.  A record that nothing refers to any more is freed.  The second   *)
(* of wall-clock time after which line 143 stores fps passes only in       *)
(* Spec19; the runs of the other specifications are shorter than it.       *)
(***************************************************************************)
EXTENDS Integers, Sequences, FiniteSets, TLC

\* ------------------------------------------------------------- bounds
MaxRecs == 2          \* successful connects (records = workers) in one run
MaxFrames == 2        \* frames one capture handle delivers
MaxBufferSize == 2    \* largest buffer_size given to the constructor
MaxCalls == 2         \* calls of connect/disconnect the control thread makes
MaxCameras == 2       \* largest max_cameras given to detect_cameras

\* ---------------------------------------------------- program constants
ErrorThreshold == 10  \* the literal 10 of _capture_loop and is_connected
None == 0             \* Python's None (frames are numbered from 1)

CameraIds == {0, 1}
Urls == {"rtsp://a"}
FirstCamera == {id \in CameraIds : \A other \in CameraIds : id <= other}
RecIds == 1..MaxRecs
Workers == RecIds                 \* the worker started for record r is thread r
Ctl == MaxRecs + 1                \* the thread calling connect / disconnect
Con == MaxRecs + 2                \* a consumer thread (a viewer's update loop)
Callers == {Ctl, Con}
Threads == Workers \cup Callers

VARIABLES
  buffer_size,      \* self.buffer_size
  streams,          \* self.streams: camera id -> record (a function on its keys)
  capture_threads,  \* self.capture_threads: camera id -> thread
  active,           \* self.active
  rec,              \* the stream records ever created, by record id
  pc,               \* each thread's position
  loc,              \* each thread's local variables
  result,           \* what a caller's public call gave back in the step just taken
  ncalls,           \* calls the control thread has made
  viewer,           \* a consumer thread is running (CameraViewer.start)
  stall,            \* the source can hold a read for longer than the join timeout
  \* CameraManager.detect_cameras (src/raspberry_pi/camera_manager.py)
  max_cameras,        \* its argument
  devices,            \* what /dev/video<i> is: "none", "mute" (opens, no frame), "ok"
  dev,                \* the loop variable i of line 39
  available_cameras,  \* the list of line 37
  handles,            \* the indices whose VideoCapture is open and not released
  detect_pc,          \* the call's position
  detected,           \* what the call returned
  \* CameraViewer (src/base_station/camera_viewer.py)
  current_frame,      \* self.current_frame, the frame last shown
  \* CameraManager and PiStreamingServer.monitor_loop (src/raspberry_pi)
  cameras,            \* self.cameras: index -> what its handle does now
  camera_info,        \* self.camera_info: index -> info record
  health,             \* health_status, as check_camera_health returned it last
  pending,            \* the items of health the monitor's for loop has yet to take
  monitor_pc,         \* the position of the thread that uses the CameraManager
  \* RTSPServer (src/raspberry_pi/rtsp_server.py)
  servers,            \* self.servers in insertion order: the servers started
  camera_indices,     \* start_all_servers' argument
  pos,                \* its loop variable i (line 143)
  results,            \* its results dict
  urls,               \* what get_all_stream_urls returned, until a call changes the servers
  rtsp_pc             \* the position of the thread that uses the RTSPServer

Probe == <<max_cameras, devices, dev, available_cameras, handles, detect_pc,
           detected>>
Pi == <<cameras, camera_info, health, pending, monitor_pc>>
Rtsp == <<servers, camera_indices, pos, results, urls, rtsp_pc>>
vars == <<buffer_size, streams, capture_threads, active, rec, pc, loc, result,
          ncalls, viewer, stall, Probe, current_frame, Pi, Rtsp>>
Fixed == <<buffer_size, viewer, stall, Probe, Pi, Rtsp>>
Config == <<Fixed, current_frame>>
\* The camera ids the callers pass.
Cameras == IF viewer THEN FirstCamera ELSE CameraIds

\* ------------------------------------------------------------ helpers
Keys(d) == DOMAIN d
Put(d, k, v) == [x \in (DOMAIN d) \cup {k} |-> IF x = k THEN v ELSE d[x]]
Del(d, k) == [x \in (DOMAIN d) \ {k} |-> d[x]]
EmptyDict == [x \in {} |-> None]

\* queue.Queue(maxsize): full() is 0 < maxsize <= qsize()
\* A full() that answers only once the queue holds more than maxsize.
QueueFull_late(r) == 0 < r.maxsize /\ r.maxsize < Len(r.buffer)
QueueFull(r) == 0 < r.maxsize /\ r.maxsize <= Len(r.buffer)
QueueEmpty(r) == Len(r.buffer) = 0

NoLocals == [id |-> None, url |-> "", stream |-> None, frame |-> None,
             fps_counter |-> 0, cap |-> "",
             dctx |-> "", ids |-> <<>>, n |-> None, acc |-> <<>>]
\* A call's outcome: the operation, its camera_id argument, and the value
\* returned ("value"; "copy" for a frame.copy()) or the exception raised.
NoResult == [op |-> "", id |-> None, kind |-> "", val |-> None]
Returned(op, id, v) == [op |-> op, id |-> id, kind |-> "value", val |-> v]
Copied(op, id, v) == [op |-> op, id |-> id, kind |-> "copy", val |-> v]
Raised(op, id, e) == [op |-> op, id |-> id, kind |-> "raised", val |-> e]
NoResults == [t \in Callers |-> NoResult]
Quiet == result' = NoResults

TypeOK ==
  /\ buffer_size \in -1..MaxBufferSize
  /\ Keys(streams) \subseteq CameraIds
  /\ \A k \in Keys(streams) : streams[k] \in DOMAIN rec
  /\ Keys(capture_threads) \subseteq CameraIds
  /\ active \in BOOLEAN
  /\ DOMAIN rec \subseteq RecIds
  /\ pc \in [Threads -> STRING]

\* No detect_cameras call is made beside the StreamManager: the two run in
\* different processes (Raspberry Pi, base station).
NoProbe ==
  /\ max_cameras = 0 /\ devices = <<>> /\ dev = 0 /\ available_cameras = <<>>
  /\ handles = {} /\ detect_pc = "off" /\ detected = <<>>
\* Nor is a CameraManager or an RTSPServer in use there.
NoPi ==
  /\ cameras = EmptyDict /\ camera_info = EmptyDict /\ health = EmptyDict
  /\ pending = {} /\ monitor_pc = "off"
NoRtsp ==
  /\ servers = <<>> /\ camera_indices = <<>> /\ pos = 0
  /\ results = EmptyDict /\ urls = EmptyDict /\ rtsp_pc = "off"

Init ==
  /\ NoProbe /\ NoPi /\ NoRtsp
  /\ current_frame = None
  /\ buffer_size \in 1..MaxBufferSize
  /\ streams = EmptyDict
  /\ capture_threads = EmptyDict
  /\ active = FALSE
  /\ rec = [x \in {} |-> None]
  /\ pc = [t \in Threads |-> IF t \in Workers THEN "unborn" ELSE "idle"]
  /\ loc = [t \in Threads |-> NoLocals]
  /\ result = NoResults
  /\ ncalls = 0
  \* Two families of runs, kept apart to keep the state space small: a
  \* consumer thread beside prompt workers on one camera, or no consumer,
  \* two cameras and reads that can stall.
  /\ viewer \in BOOLEAN /\ stall = ~viewer


\* The record of a connect_stream that builds its Queue without maxsize.
NewRecord_unbounded(url) ==
  [url |-> url, buffer |-> <<>>, maxsize |-> 0, connected |-> TRUE,
   frame_count |-> 0, fps |-> 0, last_frame |-> None, error_count |-> 0,
   released |-> FALSE, produced |-> 0]

\* A record as connect_stream stores it (lines 60-72); `released` and `produced`
\* are the state of its cv2.VideoCapture handle, `maxsize` that of its Queue.
NewRecord(url) ==
  [url |-> url, buffer |-> <<>>, maxsize |-> buffer_size, connected |-> TRUE,
   frame_count |-> 0, fps |-> 0, last_frame |-> None, error_count |-> 0,
   released |-> FALSE, produced |-> 0]

\* What a record reads as once nothing refers to it any more (Python frees it):
\* neither self.streams nor a thread's local variable `stream`.
Freed ==
  [url |-> "", buffer |-> <<>>, maxsize |-> 0, connected |-> FALSE,
   frame_count |-> 0, fps |-> 0, last_frame |-> None, error_count |-> 0,
   released |-> TRUE, produced |-> 0]
Referenced(strs, locs) ==
  {strs[k] : k \in DOMAIN strs} \cup {locs[t].stream : t \in DOMAIN locs}
Collect(recs, strs, locs) ==
  [r \in DOMAIN recs |-> IF r \in Referenced(strs, locs) THEN recs[r] ELSE Freed]

SetPc(t, p) == pc' = [pc EXCEPT ![t] = p]
SetLoc(t, l) == loc' = [loc EXCEPT ![t] = l]
SetRec(r, x) == rec' = [rec EXCEPT ![r] = x]
Registry == <<streams, capture_threads, active>>

\* ------------------------------------------------ returns and exceptions
\* connect_stream returns v (lines 54, 85, 89): to the caller, or into
\* _reconnect_stream (line 188), which returns into the capture loop.
ConnectReturn(t, v) ==
  IF t \in Workers
    THEN /\ SetPc(t, "w_loop")
         /\ SetLoc(t, [loc[t] EXCEPT !.url = "", !.dctx = "", !.n = None,
                                     !.cap = ""])
         /\ Quiet
    ELSE /\ SetPc(t, "idle")
         /\ SetLoc(t, NoLocals)
         /\ result' = [NoResults EXCEPT ![t] = Returned("connect_stream", loc[t].id, v)]

\* disconnect_stream returns (line 98 false, or after line 119) to whoever
\* called it: the caller, disconnect_all's loop (266), connect_stream (43)
\* or _reconnect_stream (186, then the sleep and the call of line 188).
DisconnectReturn(t) ==
  CASE loc[t].dctx = "top" ->
         /\ SetPc(t, "idle")
         /\ SetLoc(t, NoLocals)
         /\ result' = [NoResults EXCEPT ![t] = Returned("disconnect_stream", loc[t].id, None)]
    [] loc[t].dctx = "all" ->
         /\ SetPc(t, "da_loop")
         /\ SetLoc(t, [loc[t] EXCEPT !.id = None, !.dctx = ""])
         /\ Quiet
    [] loc[t].dctx = "connect" ->
         /\ SetPc(t, "cs_open")
         /\ SetLoc(t, [loc[t] EXCEPT !.dctx = ""])
         /\ Quiet
    [] loc[t].dctx = "reconnect" ->
         /\ SetPc(t, "cs_chk")
         /\ SetLoc(t, [loc[t] EXCEPT !.dctx = ""])
         /\ Quiet

\* An exception raised inside disconnect_stream, which has no handler: it
\* reaches the caller, connect_stream's handler (87-89) or the capture
\* loop's handler (172-175).
DisconnectRaise(t, e) ==
  CASE loc[t].dctx = "top" ->
         /\ SetPc(t, "idle")
         /\ SetLoc(t, NoLocals)
         /\ result' = [NoResults EXCEPT ![t] = Raised("disconnect_stream", loc[t].id, e)]
    [] loc[t].dctx = "all" ->
         /\ SetPc(t, "idle")
         /\ SetLoc(t, NoLocals)
         /\ result' = [NoResults EXCEPT ![t] = Raised("disconnect_all", None, e)]
    [] loc[t].dctx = "connect" -> ConnectReturn(t, FALSE)
    [] loc[t].dctx = "reconnect" ->
         /\ SetPc(t, "w_exc")
         /\ SetLoc(t, [loc[t] EXCEPT !.url = "", !.dctx = ""])
         /\ Quiet

\* ------------------------------------------------------ disconnect_stream
\* A membership test that, for an id without a record, clears the manager's
\* active flag before it returns.
disconnect_test_deactivates(t) ==
  /\ pc[t] = "ds_chk"
  /\ UNCHANGED <<Config, ncalls, streams, capture_threads, rec>>
  /\ IF loc[t].id \in Keys(streams)
       THEN SetPc(t, "ds_flag") /\ UNCHANGED <<loc, active>> /\ Quiet
       ELSE DisconnectReturn(t) /\ active' = FALSE

\* line 98
disconnect_test(t) ==
  /\ pc[t] = "ds_chk"
  /\ UNCHANGED <<Config, ncalls, Registry, rec>>
  /\ IF loc[t].id \in Keys(streams)
       THEN SetPc(t, "ds_flag") /\ UNCHANGED loc /\ Quiet
       ELSE DisconnectReturn(t)

\* A stop request that clears the connected flag of every record.
disconnect_flag_every(t) ==
  /\ pc[t] = "ds_flag"
  /\ UNCHANGED <<Config, ncalls, Registry>>
  /\ IF loc[t].id \in Keys(streams)
       THEN /\ rec' = [r \in DOMAIN rec |-> [rec[r] EXCEPT !.connected = FALSE]]
            /\ SetPc(t, "ds_joinchk")
            /\ UNCHANGED loc /\ Quiet
       ELSE DisconnectRaise(t, "KeyError") /\ UNCHANGED rec

\* line 100
disconnect_flag(t) ==
  /\ pc[t] = "ds_flag"
  /\ UNCHANGED <<Config, ncalls, Registry>>
  /\ IF loc[t].id \in Keys(streams)
       THEN /\ SetRec(streams[loc[t].id],
                      [rec[streams[loc[t].id]] EXCEPT !.connected = FALSE])
            /\ SetPc(t, "ds_joinchk")
            /\ UNCHANGED loc /\ Quiet
       ELSE DisconnectRaise(t, "KeyError") /\ UNCHANGED rec

\* line 103
disconnect_jointest(t) ==
  /\ pc[t] = "ds_joinchk"
  /\ SetPc(t, IF loc[t].id \in Keys(capture_threads) THEN "ds_join" ELSE "ds_rel")
  /\ UNCHANGED <<Config, ncalls, Registry, rec, loc>> /\ Quiet

\* line 104: Thread.join raises RuntimeError on the current thread; otherwise
\* it returns when the thread has ended or the timeout has passed.
JoinRaises(t, th) == th = t

\* Where a worker can stay for longer than the timeout: in cap.read(), in a
\* blocked Queue.put, or on its way through _reconnect_stream (a sleep of one
\* second, a join of its own, the opening of a connection).
Blocking ==
  {"w_read", "w_put", "cs_chk", "cs_open", "cs_start",
   "ds_chk", "ds_flag", "ds_joinchk", "ds_join", "ds_del", "ds_rel",
   "ds_drain", "ds_remove"}
Ended(th) == pc[th] \in {"w_done", "w_dead"}
\* A join without timeout.
JoinReturns_untimed(th) == Ended(th)
JoinReturns(th) == Ended(th) \/ (stall /\ pc[th] \in Blocking)

disconnect_join(t) ==
  /\ pc[t] = "ds_join"
  /\ UNCHANGED <<Config, ncalls, Registry, rec>>
  /\ IF loc[t].id \notin Keys(capture_threads)
       THEN DisconnectRaise(t, "KeyError")
       ELSE IF JoinRaises(t, capture_threads[loc[t].id])
              THEN DisconnectRaise(t, "RuntimeError")
              ELSE /\ JoinReturns(capture_threads[loc[t].id])
                   /\ SetPc(t, "ds_del")
                   /\ UNCHANGED loc /\ Quiet

\* line 105
disconnect_forget(t) ==
  /\ pc[t] = "ds_del"
  /\ UNCHANGED <<Config, ncalls, streams, active, rec>>
  /\ IF loc[t].id \in Keys(capture_threads)
       THEN /\ capture_threads' = Del(capture_threads, loc[t].id)
            /\ SetPc(t, "ds_rel")
            /\ UNCHANGED loc /\ Quiet
       ELSE DisconnectRaise(t, "KeyError") /\ UNCHANGED capture_threads

\* lines 108-109
disconnect_release(t) ==
  /\ pc[t] = "ds_rel"
  /\ UNCHANGED <<Config, ncalls, Registry>>
  /\ IF loc[t].id \in Keys(streams)
       THEN /\ SetRec(streams[loc[t].id],
                      [rec[streams[loc[t].id]] EXCEPT !.released = TRUE])
            /\ SetPc(t, "ds_drain")
            /\ UNCHANGED loc /\ Quiet
       ELSE DisconnectRaise(t, "KeyError") /\ UNCHANGED rec

\* lines 112-116
disconnect_drain(t) ==
  /\ pc[t] = "ds_drain"
  /\ UNCHANGED <<Config, ncalls, Registry>>
  /\ IF loc[t].id \in Keys(streams)
       THEN /\ SetRec(streams[loc[t].id],
                      [rec[streams[loc[t].id]] EXCEPT !.buffer = <<>>])
            /\ SetPc(t, "ds_remove")
            /\ UNCHANGED loc /\ Quiet
       ELSE DisconnectRaise(t, "KeyError") /\ UNCHANGED rec

\* line 118
disconnect_remove(t) ==
  /\ pc[t] = "ds_remove"
  /\ UNCHANGED <<Config, ncalls, capture_threads, active>>
  /\ IF loc[t].id \in Keys(streams)
       THEN /\ streams' = Del(streams, loc[t].id)
            /\ DisconnectReturn(t)
            /\ rec' = Collect(rec, streams', loc')
       ELSE DisconnectRaise(t, "KeyError") /\ UNCHANGED <<streams, rec>>

\* --------------------------------------------------------- connect_stream
\* lines 42-43, entered from a caller's call or from _reconnect_stream
ConnectTest(t, id, url) ==
  /\ SetPc(t, IF id \in Keys(streams) THEN "ds_chk" ELSE "cs_open")
  /\ SetLoc(t, [loc[t] EXCEPT !.id = id, !.url = url,
                              !.dctx = IF id \in Keys(streams) THEN "connect" ELSE ""])

call_connect_stream(t) ==
  /\ t = Ctl /\ pc[t] = "idle" /\ ncalls < MaxCalls /\ ncalls' = ncalls + 1
  /\ \E id \in Cameras, url \in Urls : ConnectTest(t, id, url)
  /\ Quiet
  /\ UNCHANGED <<Config, Registry, rec>>

\* line 188, after the sleep of line 187
reconnect_connect(t) ==
  /\ t \in Workers /\ pc[t] = "cs_chk"
  /\ ConnectTest(t, loc[t].id, loc[t].url)
  /\ UNCHANGED <<Config, ncalls, Registry, rec>> /\ Quiet

\* lines 46-54: both backends fail to open
connect_open_fails(t) ==
  /\ pc[t] = "cs_open"
  /\ ConnectReturn(t, FALSE)
  /\ UNCHANGED <<Config, ncalls, Registry, rec>>

\* lines 46-72: one of the two backends opens; the record is stored
connect_open(t) ==
  /\ pc[t] = "cs_open"
  /\ Cardinality(DOMAIN rec) < MaxRecs
  /\ LET r == Cardinality(DOMAIN rec) + 1 IN
       /\ streams' = Put(streams, loc[t].id, r)
       /\ SetLoc(t, [loc[t] EXCEPT !.n = r])
       /\ rec' = Collect(Put(rec, r, NewRecord(loc[t].url)), streams', loc')
  /\ SetPc(t, "cs_start")
  /\ UNCHANGED <<Config, ncalls, capture_threads, active>> /\ Quiet

\* lines 75-85: the worker thread is started on _capture_loop(camera_id) and
\* entered in capture_threads (lines 81 and 82, one step)
connect_start(t) ==
  /\ pc[t] = "cs_start"
  /\ active' = TRUE
  /\ capture_threads' = Put(capture_threads, loc[t].id, loc[t].n)
  /\ pc' = [pc EXCEPT ![t] = IF t \in Workers THEN "w_loop" ELSE "idle",
                       ![loc[t].n] = "w_start"]
  /\ loc' = [loc EXCEPT
               ![t] = IF t \in Workers
                        THEN [loc[t] EXCEPT !.url = "", !.dctx = "", !.n = None,
                                            !.cap = ""]
                        ELSE NoLocals,
               ![loc[t].n] = [NoLocals EXCEPT !.id = loc[t].id]]
  /\ result' = IF t \in Workers THEN NoResults
               ELSE [NoResults EXCEPT ![t] = Returned("connect_stream", loc[t].id, TRUE)]
  /\ UNCHANGED <<Config, ncalls, streams, rec>>

\* ------------------------------------------------------ a caller's calls
call_disconnect_stream(t) ==
  /\ t = Ctl /\ pc[t] = "idle" /\ ncalls < MaxCalls /\ ncalls' = ncalls + 1
  /\ \E id \in Cameras :
       /\ SetPc(t, "ds_chk")
       /\ SetLoc(t, [NoLocals EXCEPT !.id = id, !.dctx = "top"])
  /\ Quiet
  /\ UNCHANGED <<Config, Registry, rec>>

\* A disconnect_all that leaves the active flag as it is.
disconnect_all_flag_kept(t) ==
  /\ t = Ctl /\ pc[t] = "idle" /\ ncalls < MaxCalls /\ ncalls' = ncalls + 1
  /\ SetPc(t, "da_keys")
  /\ Quiet
  /\ UNCHANGED <<Config, streams, capture_threads, active, rec, loc>>

\* line 264
disconnect_all_flag(t) ==
  /\ t = Ctl /\ pc[t] = "idle" /\ ncalls < MaxCalls /\ ncalls' = ncalls + 1
  /\ active' = FALSE
  /\ SetPc(t, "da_keys")
  /\ Quiet
  /\ UNCHANGED <<Config, streams, capture_threads, rec, loc>>

\* The orders in which a dict with these keys can list them (insertion order).
KeyOrders(d) ==
  {s \in UNION {[1..n -> Keys(d)] : n \in {Cardinality(Keys(d))}} :
     \A i, j \in DOMAIN s : i # j => s[i] # s[j]}

\* line 265: list(self.streams.keys())
disconnect_all_keys(t) ==
  /\ pc[t] = "da_keys"
  /\ \E s \in KeyOrders(streams) : SetLoc(t, [loc[t] EXCEPT !.ids = s])
  /\ SetPc(t, "da_loop")
  /\ UNCHANGED <<Config, ncalls, Registry, rec>> /\ Quiet

\* lines 265-266
disconnect_all_next(t) ==
  /\ pc[t] = "da_loop"
  /\ UNCHANGED <<Config, ncalls, Registry, rec>>
  /\ IF loc[t].ids = <<>>
       THEN /\ SetPc(t, "idle")
            /\ SetLoc(t, NoLocals)
            /\ result' = [NoResults EXCEPT ![t] = Returned("disconnect_all", None, None)]
       ELSE /\ SetPc(t, "ds_chk")
            /\ SetLoc(t, [loc[t] EXCEPT !.id = Head(loc[t].ids),
                                        !.ids = Tail(loc[t].ids), !.dctx = "all"])
            /\ Quiet

\* ---------------------------------------------------------- _capture_loop
MaxErrorCount == ErrorThreshold + 2   \* reads stop failing here (a cap)

\* lines 128-130
capture_enter(t) ==
  /\ t \in Workers /\ pc[t] = "w_start"
  /\ IF loc[t].id \in Keys(streams)
       THEN /\ SetPc(t, "w_loop")
            /\ SetLoc(t, [loc[t] EXCEPT !.stream = streams[loc[t].id]])
       ELSE SetPc(t, "w_dead") /\ SetLoc(t, NoLocals)    \* KeyError ends the thread
  /\ UNCHANGED <<Config, ncalls, Registry, rec>> /\ Quiet

\* A loop condition that looks at the manager's flag only.
LoopCondition_active(t) == active

\* line 135
LoopCondition(t) == active /\ rec[loc[t].stream].connected

capture_test(t) ==
  /\ t \in Workers /\ pc[t] = "w_loop"
  /\ IF LoopCondition(t)
       THEN SetPc(t, "w_read") /\ UNCHANGED loc
       ELSE SetPc(t, "w_done") /\ SetLoc(t, NoLocals)
  /\ rec' = Collect(rec, streams, loc')
  /\ UNCHANGED <<Config, ncalls, Registry>> /\ Quiet

\* lines 137-149: cap.read() gives the handle's next frame, less than a
\* second after fps was last stored (line 143)
capture_read(t) ==
  /\ t \in Workers /\ pc[t] = "w_read"
  /\ LET s == loc[t].stream IN
       /\ ~rec[s].released
       /\ rec[s].produced < MaxFrames
       /\ SetRec(s, [rec[s] EXCEPT !.produced = @ + 1, !.frame_count = @ + 1])
       /\ SetLoc(t, [loc[t] EXCEPT !.frame = rec[s].produced + 1,
                                   !.fps_counter = @ + 1])
  /\ SetPc(t, "w_full")
  /\ UNCHANGED <<Config, ncalls, Registry>> /\ Quiet

\* lines 137-149, a second or more after fps was last stored: lines 144-146
capture_second(t) ==
  /\ t \in Workers /\ pc[t] = "w_read"
  /\ LET s == loc[t].stream IN
       /\ ~rec[s].released
       /\ rec[s].produced < MaxFrames
       /\ SetRec(s, [rec[s] EXCEPT !.produced = @ + 1, !.frame_count = @ + 1,
                                   !.fps = loc[t].fps_counter + 1])
       /\ SetLoc(t, [loc[t] EXCEPT !.frame = rec[s].produced + 1,
                                   !.fps_counter = 0])
  /\ SetPc(t, "w_full")
  /\ UNCHANGED <<Config, ncalls, Registry>> /\ Quiet

\* lines 137, 162-165: cap.read() gives ret = False
capture_read_fails(t) ==
  /\ t \in Workers /\ pc[t] = "w_read"
  /\ LET s == loc[t].stream IN
       /\ rec[s].error_count < MaxErrorCount
       /\ SetRec(s, [rec[s] EXCEPT !.error_count = @ + 1])
  /\ SetPc(t, "w_chk")
  /\ UNCHANGED <<Config, ncalls, Registry, loc>> /\ Quiet

\* line 152
capture_full(t) ==
  /\ t \in Workers /\ pc[t] = "w_full"
  /\ SetPc(t, IF QueueFull(rec[loc[t].stream]) THEN "w_evict" ELSE "w_put")
  /\ UNCHANGED <<Config, ncalls, Registry, rec, loc>> /\ Quiet

\* lines 153-156: get_nowait(), Empty ignored
capture_evict(t) ==
  /\ t \in Workers /\ pc[t] = "w_evict"
  /\ LET s == loc[t].stream IN
       IF QueueEmpty(rec[s]) THEN UNCHANGED rec
       ELSE SetRec(s, [rec[s] EXCEPT !.buffer = Tail(@)])
  /\ SetPc(t, "w_put")
  /\ UNCHANGED <<Config, ncalls, Registry, loc>> /\ Quiet

\* line 158: Queue.put blocks while the queue is full
capture_put(t) ==
  /\ t \in Workers /\ pc[t] = "w_put"
  /\ LET s == loc[t].stream IN
       /\ ~QueueFull(rec[s])
       /\ SetRec(s, [rec[s] EXCEPT !.buffer = Append(@, loc[t].frame)])
  /\ SetPc(t, "w_last")
  /\ UNCHANGED <<Config, ncalls, Registry, loc>> /\ Quiet

\* A worker that stores the frame and leaves error_count as it is.
capture_store_keeps(t) ==
  /\ t \in Workers /\ pc[t] = "w_last"
  /\ LET s == loc[t].stream IN
       SetRec(s, [rec[s] EXCEPT !.last_frame = loc[t].frame])
  /\ SetLoc(t, [loc[t] EXCEPT !.frame = None])
  /\ SetPc(t, "w_loop")
  /\ UNCHANGED <<Config, ncalls, Registry>> /\ Quiet

\* lines 159-160
capture_store(t) ==
  /\ t \in Workers /\ pc[t] = "w_last"
  /\ LET s == loc[t].stream IN
       SetRec(s, [rec[s] EXCEPT !.last_frame = loc[t].frame, !.error_count = 0])
  /\ SetLoc(t, [loc[t] EXCEPT !.frame = None])
  /\ SetPc(t, "w_loop")
  /\ UNCHANGED <<Config, ncalls, Registry>> /\ Quiet

\* A check that asks for ten times the threshold before it reconnects.
capture_check_lenient(t) ==
  /\ t \in Workers /\ pc[t] = "w_chk"
  /\ SetPc(t, IF rec[loc[t].stream].error_count > ErrorThreshold * 10
                THEN "rc_chk" ELSE "w_loop")
  /\ UNCHANGED <<Config, ncalls, Registry, rec, loc>> /\ Quiet

\* line 168, after the sleep of line 165
capture_check(t) ==
  /\ t \in Workers /\ pc[t] = "w_chk"
  /\ SetPc(t, IF rec[loc[t].stream].error_count > ErrorThreshold
                THEN "rc_chk" ELSE "w_loop")
  /\ UNCHANGED <<Config, ncalls, Registry, rec, loc>> /\ Quiet

\* lines 172-175: the loop's handler
capture_except(t) ==
  /\ t \in Workers /\ pc[t] = "w_exc"
  /\ LET s == loc[t].stream IN
       SetRec(s, [rec[s] EXCEPT !.error_count = @ + 1])
  /\ SetPc(t, "w_loop")
  /\ UNCHANGED <<Config, ncalls, Registry, loc>> /\ Quiet

\* ------------------------------------------------------ _reconnect_stream
\* line 184
reconnect_test(t) ==
  /\ t \in Workers /\ pc[t] = "rc_chk"
  /\ SetPc(t, IF loc[t].id \in Keys(streams) THEN "rc_url" ELSE "w_loop")
  /\ UNCHANGED <<Config, ncalls, Registry, rec, loc>> /\ Quiet

\* lines 185-186
reconnect_url(t) ==
  /\ t \in Workers /\ pc[t] = "rc_url"
  /\ IF loc[t].id \in Keys(streams)
       THEN /\ SetPc(t, "ds_chk")
            /\ SetLoc(t, [loc[t] EXCEPT !.url = rec[streams[loc[t].id]].url,
                                        !.dctx = "reconnect"])
       ELSE SetPc(t, "w_exc") /\ UNCHANGED loc
  /\ UNCHANGED <<Config, ncalls, Registry, rec>> /\ Quiet

\* ------------------------------------------------------- consumer calls
\* A consumer call returns v, or raises e, to the consumer thread.  get_frame
\* called by capture_frame (line 282) and get_stream_info called by
\* get_all_stream_info (line 244) return into their callers.
Finish(t, res) ==
  /\ SetPc(t, "idle")
  /\ SetLoc(t, NoLocals)
  /\ result' = [NoResults EXCEPT ![t] = res]
  /\ rec' = Collect(rec, streams, loc')

\* A capture_frame that hands out the frame object itself.
GetFrameReturn_shared(t, v) ==
  IF loc[t].dctx = "capture"
    THEN Finish(t, Returned("capture_frame", loc[t].id, v))
    ELSE Finish(t, Returned("get_frame", loc[t].id, v))

\* lines 283-287: a frame is copied, None is passed on
GetFrameReturn(t, v) ==
  IF loc[t].dctx = "capture"
    THEN Finish(t, IF v # None THEN Copied("capture_frame", loc[t].id, v)
                   ELSE Returned("capture_frame", loc[t].id, None))
    ELSE Finish(t, Returned("get_frame", loc[t].id, v))

GetFrameRaise(t, e) ==
  Finish(t, Raised(IF loc[t].dctx = "capture" THEN "capture_frame" ELSE "get_frame",
                   loc[t].id, e))

\* lines 200-201
GetFrameTest(t, id, ctx) ==
  IF id \in Keys(streams)
    THEN /\ SetPc(t, "gf_look")
         /\ SetLoc(t, [NoLocals EXCEPT !.id = id, !.dctx = ctx])
         /\ Quiet
         /\ UNCHANGED rec
    ELSE /\ SetPc(t, "idle")
         /\ SetLoc(t, NoLocals)
         /\ result' = [NoResults EXCEPT ![t] =
                         Returned(IF ctx = "capture" THEN "capture_frame" ELSE "get_frame",
                                  id, None)]
         /\ UNCHANGED rec

call_get_frame(t) ==
  /\ t = Con /\ viewer /\ pc[t] = "idle"
  /\ \E id \in Cameras : GetFrameTest(t, id, "")
  /\ UNCHANGED <<Config, ncalls, Registry>>

\* lines 278-279, then the call of line 282
call_capture_frame(t) ==
  /\ t = Con /\ viewer /\ pc[t] = "idle"
  /\ \E id \in Cameras :
       IF id \in Keys(streams)
         THEN /\ SetPc(t, "cf_call")
              /\ SetLoc(t, [NoLocals EXCEPT !.id = id, !.dctx = "capture"])
              /\ Quiet
         ELSE /\ SetPc(t, "idle")
              /\ SetLoc(t, NoLocals)
              /\ result' = [NoResults EXCEPT ![t] = Returned("capture_frame", id, None)]
  /\ UNCHANGED <<Config, ncalls, Registry, rec>>

capture_frame_get(t) ==
  /\ pc[t] = "cf_call"
  /\ GetFrameTest(t, loc[t].id, "capture")
  /\ UNCHANGED <<Config, ncalls, Registry>>

\* line 203
get_frame_lookup(t) ==
  /\ pc[t] = "gf_look"
  /\ IF loc[t].id \in Keys(streams)
       THEN /\ SetPc(t, "gf_get")
            /\ SetLoc(t, [loc[t] EXCEPT !.stream = streams[loc[t].id]])
            /\ UNCHANGED rec /\ Quiet
       ELSE GetFrameRaise(t, "KeyError")
  /\ UNCHANGED <<Config, ncalls, Registry>>

\* A get_frame that takes the newest buffered frame instead of the oldest.
get_frame_get_newest(t) ==
  /\ pc[t] = "gf_get"
  /\ LET s == loc[t].stream
         n == Len(rec[s].buffer) IN
       IF QueueEmpty(rec[s])
         THEN GetFrameReturn(t, rec[s].last_frame)
         ELSE /\ SetRec(s, [rec[s] EXCEPT !.buffer = SubSeq(@, 1, n - 1)])
              /\ SetLoc(t, [loc[t] EXCEPT !.frame = rec[s].buffer[n]])
              /\ SetPc(t, "gf_last")
              /\ Quiet
  /\ UNCHANGED <<Config, ncalls, Registry>>

\* lines 206-207 and 210-212: get_nowait(), or the cached frame on Empty
get_frame_get(t) ==
  /\ pc[t] = "gf_get"
  /\ LET s == loc[t].stream IN
       IF QueueEmpty(rec[s])
         THEN GetFrameReturn(t, rec[s].last_frame)
         ELSE /\ SetRec(s, [rec[s] EXCEPT !.buffer = Tail(@)])
              /\ SetLoc(t, [loc[t] EXCEPT !.frame = Head(rec[s].buffer)])
              /\ SetPc(t, "gf_last")
              /\ Quiet
  /\ UNCHANGED <<Config, ncalls, Registry>>

\* A get_frame that returns the frame it took without caching it.
get_frame_store_forgets(t) ==
  /\ pc[t] = "gf_last"
  /\ SetPc(t, "idle")
  /\ SetLoc(t, NoLocals)
  /\ result' = [NoResults EXCEPT ![t] =
       IF loc[t].dctx = "capture"
         THEN Copied("capture_frame", loc[t].id, loc[t].frame)
         ELSE Returned("get_frame", loc[t].id, loc[t].frame)]
  /\ rec' = Collect(rec, streams, loc')
  /\ UNCHANGED <<Config, ncalls, Registry>>

\* lines 208-209
get_frame_store(t) ==
  /\ pc[t] = "gf_last"
  /\ LET s == loc[t].stream
         stored == [rec EXCEPT ![s].last_frame = loc[t].frame] IN
       /\ SetPc(t, "idle")
       /\ SetLoc(t, NoLocals)
       /\ result' = [NoResults EXCEPT ![t] =
            IF loc[t].dctx = "capture"
              THEN Copied("capture_frame", loc[t].id, loc[t].frame)
              ELSE Returned("get_frame", loc[t].id, loc[t].frame)]
       /\ rec' = Collect(stored, streams, loc')
  /\ UNCHANGED <<Config, ncalls, Registry>>

\* An info dict whose error_count is not the record's.
Info_reset(r) == [connected |-> r.connected, fps |-> r.fps,
                  frame_count |-> r.frame_count,
                  url |-> r.url, error_count |-> 0]

\* lines 228-234
Info(r) == [connected |-> r.connected, fps |-> r.fps,
            frame_count |-> r.frame_count,
            url |-> r.url, error_count |-> r.error_count]

\* get_stream_info returns v: to the consumer, or into the dict that
\* get_all_stream_info builds (lines 243-246)
InfoReturn(t, v) ==
  IF loc[t].dctx = "all"
    THEN /\ SetPc(t, "ga_next")
         /\ SetLoc(t, [loc[t] EXCEPT !.acc = Append(@, <<loc[t].id, v>>), !.id = None])
         /\ UNCHANGED rec /\ Quiet
    ELSE Finish(t, Returned("get_stream_info", loc[t].id, v))

InfoRaise(t, e) ==
  IF loc[t].dctx = "all"
    THEN Finish(t, Raised("get_all_stream_info", None, e))
    ELSE Finish(t, Raised("get_stream_info", loc[t].id, e))

\* lines 224-225
call_get_stream_info(t) ==
  /\ t = Con /\ viewer /\ pc[t] = "idle"
  /\ \E id \in Cameras :
       IF id \in Keys(streams)
         THEN /\ SetPc(t, "gi_look")
              /\ SetLoc(t, [NoLocals EXCEPT !.id = id])
              /\ Quiet
         ELSE /\ SetPc(t, "idle")
              /\ SetLoc(t, NoLocals)
              /\ result' = [NoResults EXCEPT ![t] = Returned("get_stream_info", id, None)]
  /\ UNCHANGED <<Config, ncalls, Registry, rec>>

\* lines 224-225, called from get_all_stream_info
get_stream_info_test(t) ==
  /\ pc[t] = "gi_chk"
  /\ IF loc[t].id \in Keys(streams)
       THEN SetPc(t, "gi_look") /\ UNCHANGED <<loc, rec>> /\ Quiet
       ELSE InfoReturn(t, None)
  /\ UNCHANGED <<Config, ncalls, Registry>>

\* lines 227-234
get_stream_info_read(t) ==
  /\ pc[t] = "gi_look"
  /\ IF loc[t].id \in Keys(streams)
       THEN InfoReturn(t, Info(rec[streams[loc[t].id]]))
       ELSE InfoRaise(t, "KeyError")
  /\ UNCHANGED <<Config, ncalls, Registry>>

\* line 245: iter(self.streams), which remembers the dict's size
call_get_all_stream_info(t) ==
  /\ t = Con /\ viewer /\ pc[t] = "idle"
  /\ \E s \in KeyOrders(streams) :
       SetLoc(t, [NoLocals EXCEPT !.ids = s, !.n = Len(s), !.dctx = "all"])
  /\ SetPc(t, "ga_next")
  /\ Quiet
  /\ UNCHANGED <<Config, ncalls, Registry, rec>>

\* line 245: the iterator's next(), which raises RuntimeError when the dict
\* has changed size; line 244 for the key it gives
get_all_stream_info_next(t) ==
  /\ pc[t] = "ga_next"
  /\ IF Cardinality(Keys(streams)) # loc[t].n
       THEN Finish(t, Raised("get_all_stream_info", None, "RuntimeError"))
       ELSE IF loc[t].ids = <<>>
              THEN Finish(t, Returned("get_all_stream_info", None, loc[t].acc))
              ELSE /\ SetPc(t, "gi_chk")
                   /\ SetLoc(t, [loc[t] EXCEPT !.id = Head(loc[t].ids),
                                               !.ids = Tail(loc[t].ids)])
                   /\ UNCHANGED rec /\ Quiet
  /\ UNCHANGED <<Config, ncalls, Registry>>

\* line 258
call_is_connected(t) ==
  /\ t = Con /\ viewer /\ pc[t] = "idle"
  /\ \E id \in Cameras :
       IF id \in Keys(streams)
         THEN /\ SetPc(t, "ic_conn")
              /\ SetLoc(t, [NoLocals EXCEPT !.id = id])
              /\ Quiet
         ELSE /\ SetPc(t, "idle")
              /\ SetLoc(t, NoLocals)
              /\ result' = [NoResults EXCEPT ![t] = Returned("is_connected", id, FALSE)]
  /\ UNCHANGED <<Config, ncalls, Registry, rec>>

\* line 259
is_connected_flag(t) ==
  /\ pc[t] = "ic_conn"
  /\ IF loc[t].id \notin Keys(streams)
       THEN Finish(t, Raised("is_connected", loc[t].id, "KeyError"))
       ELSE IF rec[streams[loc[t].id]].connected
              THEN SetPc(t, "ic_err") /\ UNCHANGED <<loc, rec>> /\ Quiet
              ELSE Finish(t, Returned("is_connected", loc[t].id, FALSE))
  /\ UNCHANGED <<Config, ncalls, Registry>>

\* An is_connected whose comparison with the threshold is <= instead of <.
is_connected_errors_inclusive(t) ==
  /\ pc[t] = "ic_err"
  /\ IF loc[t].id \notin Keys(streams)
       THEN Finish(t, Raised("is_connected", loc[t].id, "KeyError"))
       ELSE Finish(t, Returned("is_connected", loc[t].id,
                               rec[streams[loc[t].id]].error_count <= ErrorThreshold))
  /\ UNCHANGED <<Config, ncalls, Registry>>

\* line 260
is_connected_errors(t) ==
  /\ pc[t] = "ic_err"
  /\ IF loc[t].id \notin Keys(streams)
       THEN Finish(t, Raised("is_connected", loc[t].id, "KeyError"))
       ELSE Finish(t, Returned("is_connected", loc[t].id,
                               rec[streams[loc[t].id]].error_count < ErrorThreshold))
  /\ UNCHANGED <<Config, ncalls, Registry>>

ConsumerStep(t) ==
  \/ call_get_frame(t) \/ call_capture_frame(t) \/ capture_frame_get(t)
  \/ get_frame_lookup(t) \/ get_frame_get(t) \/ get_frame_store(t)
  \/ call_get_stream_info(t) \/ get_stream_info_test(t) \/ get_stream_info_read(t)
  \/ call_get_all_stream_info(t) \/ get_all_stream_info_next(t)
  \/ call_is_connected(t) \/ is_connected_flag(t) \/ is_connected_errors(t)

NoGarbage == rec = Collect(rec, streams, loc)

ManagerStep(t) ==
  \/ call_connect_stream(t) \/ reconnect_connect(t)
  \/ connect_open_fails(t) \/ connect_open(t) \/ connect_start(t)
  \/ call_disconnect_stream(t)
  \/ disconnect_test(t) \/ disconnect_flag(t) \/ disconnect_jointest(t)
  \/ disconnect_join(t) \/ disconnect_forget(t) \/ disconnect_release(t)
  \/ disconnect_drain(t) \/ disconnect_remove(t)
  \/ disconnect_all_flag(t) \/ disconnect_all_keys(t) \/ disconnect_all_next(t)

WorkerStep(t) ==
  \/ capture_enter(t) \/ capture_test(t) \/ capture_read(t)
  \/ capture_read_fails(t) \/ capture_full(t) \/ capture_evict(t)
  \/ capture_put(t) \/ capture_store(t) \/ capture_check(t)
  \/ capture_except(t) \/ reconnect_test(t) \/ reconnect_url(t)

Next == \E t \in Threads : ManagerStep(t) \/ WorkerStep(t) \/ ConsumerStep(t)

Spec == Init /\ [][Next]_vars


\* ------------------------------------------------------------ properties
\* A worker thread that has been started and has not left _capture_loop.
Running(w) == pc[w] \notin {"unborn", "w_done", "w_dead"}
RunningFor(id) == {w \in Workers : Running(w) /\ loc[w].id = id}
Moves(t) == pc'[t] # pc[t]
DisconnectPcs ==
  {"ds_chk", "ds_flag", "ds_joinchk", "ds_join", "ds_del", "ds_rel",
   "ds_drain", "ds_remove"}
Kept(r) == r \in Referenced(streams', loc')

\* C1: every record's buffer holds at most buffer_size frames, in every
\* reachable state, whatever the interleaving of the worker's pushes with
\* get_frame and capture_frame.
C1_BufferBounded ==
  \A r \in DOMAIN rec : Len(rec[r].buffer) <= buffer_size

\* The worker has just pushed a frame into a buffer that is now full, after
\* more frames were read than the buffer holds, while a consumer is inside
\* get_frame with a frame it has taken from the same buffer.
C1_Witness ==
  \E w \in Workers :
    /\ pc[w] = "w_last"
    /\ loc[w].frame > buffer_size
    /\ Len(rec[loc[w].stream].buffer) = buffer_size
    /\ pc[Con] = "gf_last"
    /\ loc[Con].stream = loc[w].stream

\* C2: get_frame(id) returns None when id has no record; with a non-empty
\* buffer it removes the oldest frame, stores it as last_frame and returns it;
\* with an empty buffer it returns last_frame at once, and last_frame, once a
\* frame has been stored in it, is never None again.
C2_Unknown ==
  /\ (pc[Con] = "idle" /\ result'[Con].op = "get_frame")
       => /\ result'[Con] = Returned("get_frame", result'[Con].id, None)
          /\ result'[Con].id \notin Keys(streams)
  /\ (pc[Con] = "idle" /\ pc'[Con] = "gf_look") => loc'[Con].id \in Keys(streams)
C2_Take ==
  (pc[Con] = "gf_get" /\ Moves(Con) /\ loc[Con].dctx = "") =>
    LET s == loc[Con].stream IN
      IF rec[s].buffer # <<>>
        THEN /\ pc'[Con] = "gf_last"
             /\ loc'[Con].frame = Head(rec[s].buffer)
             /\ rec'[s].buffer = Tail(rec[s].buffer)
        ELSE result'[Con] = Returned("get_frame", loc[Con].id, rec[s].last_frame)
C2_Store ==
  (pc[Con] = "gf_last" /\ Moves(Con) /\ loc[Con].dctx = "") =>
    /\ result'[Con] = Returned("get_frame", loc[Con].id, loc[Con].frame)
    /\ loc[Con].frame # None
    /\ Kept(loc[Con].stream) => rec'[loc[Con].stream].last_frame = loc[Con].frame
C2_Cache ==
  \A r \in DOMAIN rec :
    (rec[r].last_frame # None /\ Kept(r)) => rec'[r].last_frame # None
C3_Unknown ==
  /\ (pc[Con] = "idle" /\ result'[Con].op = "is_connected")
       => /\ result'[Con] = Returned("is_connected", result'[Con].id, FALSE)
          /\ result'[Con].id \notin Keys(streams)
  /\ (pc[Con] = "idle" /\ pc'[Con] = "ic_conn") => loc'[Con].id \in Keys(streams)
C3_Flag ==
  (pc[Con] = "ic_conn" /\ Moves(Con) /\ loc[Con].id \in Keys(streams)) =>
    IF rec[streams[loc[Con].id]].connected
      THEN pc'[Con] = "ic_err"
      ELSE result'[Con] = Returned("is_connected", loc[Con].id, FALSE)
C3_Errors ==
  (pc[Con] = "ic_err" /\ Moves(Con) /\ loc[Con].id \in Keys(streams)) =>
    result'[Con] = Returned("is_connected", loc[Con].id,
                            rec[streams[loc[Con].id]].error_count < 10)
C3_True ==
  (result'[Con].op = "is_connected" /\ result'[Con].kind = "value"
     /\ result'[Con].val = TRUE) =>
    /\ pc[Con] = "ic_err"
    /\ result'[Con].id \in Keys(streams')
    /\ rec'[streams'[result'[Con].id]].error_count < 10
C3_IsConnected == [][C3_Unknown /\ C3_Flag /\ C3_Errors /\ C3_True]_vars

\* is_connected has returned False for a record that is connected and whose
\* error_count is exactly 10.
C3_Witness ==
  /\ result[Con] = Returned("is_connected", 0, FALSE)
  /\ 0 \in Keys(streams)
  /\ rec[streams[0]].connected
  /\ rec[streams[0]].error_count = 10

\* C4: once a worker whose error_count exceeds 10 has called disconnect_stream
\* from _reconnect_stream, it goes through the disconnect to the call of
\* connect_stream with the stored url, the id's record removed; a successful
\* open then stores a connected record with error_count 0 and starts a worker.
C4_Disconnects(w) ==
  (loc[w].dctx = "reconnect" /\ Moves(w)) =>
    \/ loc'[w].dctx = "reconnect" /\ pc'[w] \in DisconnectPcs
    \/ /\ pc'[w] = "cs_chk"
       /\ loc'[w].url = loc[w].url
       /\ loc[w].id \notin Keys(streams')
C4_Connects(w) ==
  /\ (pc[w] = "cs_open" /\ pc'[w] = "cs_start") =>
       /\ rec'[streams'[loc[w].id]].connected
       /\ rec'[streams'[loc[w].id]].error_count = 0
       /\ rec'[streams'[loc[w].id]].url = loc[w].url
  /\ (pc[w] = "cs_start" /\ Moves(w)) => pc'[loc[w].n] = "w_start"
C4_ReconnectCompletes ==
  [][\A w \in Workers : C4_Disconnects(w) /\ C4_Connects(w)]_vars

\* C5: after one successful connect_stream and no other call, a worker is
\* always running for the stream, however its reads and reconnects fail.
C5_RetriedForever ==
  (ncalls = 1 /\ pc[Ctl] = "idle" /\ DOMAIN rec # {}) =>
    \E w \in Workers : Running(w)

\* C6: when the second of two successful connect_stream calls returns,
\* exactly one worker is running a capture loop for its id.
C6_OneWorker ==
  (result[Ctl].op = "connect_stream" /\ result[Ctl].val = TRUE
     /\ ncalls = 2 /\ Cardinality(DOMAIN rec) = 2) =>
    Cardinality(RunningFor(result[Ctl].id)) = 1

\* C7: disconnect_stream(id) on a registered id performs its steps in the
\* order flag, join, release, drain, remove, each of them and in whichever
\* thread it is called; it releases a handle only when the record has been
\* told to stop and no worker is registered for the id any more; and when it
\* returns id is in neither streams nor capture_threads.
C7_Rank(p) ==
  CASE p = "ds_chk" -> 0 [] p = "ds_flag" -> 1 [] p = "ds_joinchk" -> 2
    [] p = "ds_join" -> 3 [] p = "ds_del" -> 4 [] p = "ds_rel" -> 5
    [] p = "ds_drain" -> 6 [] p = "ds_remove" -> 7
C7_Order(t) ==
  (pc[t] \in DisconnectPcs /\ pc'[t] \in DisconnectPcs /\ Moves(t)) =>
    C7_Rank(pc[t]) < C7_Rank(pc'[t])
C7_Performs(t) ==
  (pc[t] \in DisconnectPcs \ {"ds_chk", "ds_remove"} /\ Moves(t)) =>
    pc'[t] \in DisconnectPcs
C7_Release(t) ==
  (pc[t] = "ds_rel" /\ pc'[t] = "ds_drain") =>
    /\ ~rec[streams[loc[t].id]].connected
    /\ loc[t].id \notin Keys(capture_threads)
C7_Return(t) ==
  (pc[t] = "ds_remove" /\ Moves(t) /\ loc[t].id \in Keys(streams)) =>
    /\ loc[t].id \notin Keys(streams')
    /\ loc[t].id \notin Keys(capture_threads')
C7_DisconnectOrder ==
  [][\A t \in Threads :
       C7_Order(t) /\ C7_Performs(t) /\ C7_Release(t) /\ C7_Return(t)]_vars

C9_Fails ==
  (pc[Ctl] = "cs_open" /\ pc'[Ctl] = "idle") =>
    /\ result'[Ctl] = Returned("connect_stream", loc[Ctl].id, FALSE)
    /\ loc[Ctl].id \notin Keys(streams')
    /\ loc[Ctl].id \notin Keys(capture_threads')
    /\ RunningFor(loc[Ctl].id) = {}
    /\ UNCHANGED <<streams, capture_threads, active, rec>>
C9_Frame ==
  (pc[Ctl] \in DisconnectPcs /\ loc[Ctl].dctx = "connect" /\ Moves(Ctl)) =>
    /\ active' = active
    /\ \A k \in Keys(streams) \ {loc[Ctl].id} :
         /\ k \in Keys(streams') /\ streams'[k] = streams[k]
         /\ rec'[streams[k]] = rec[streams[k]]
    /\ \A k \in Keys(capture_threads) \ {loc[Ctl].id} :
         k \in Keys(capture_threads') /\ capture_threads'[k] = capture_threads[k]
C9_OpenFails == [][C9_Fails /\ C9_Frame]_vars

\* C10: no call of a public operation raises.
C10_NeverRaises ==
  \A t \in Callers : result[t].kind # "raised"


\* C11: no step of one stream's worker (counting failures, reconnecting,
\* disconnecting, connecting again) changes another stream's registry entry,
\* record (buffer and handle with it), registered worker or that worker's
\* position, so get_frame on the other stream goes on as if alone.
C11_Others(w) == CameraIds \ {loc[w].id}
PushDone(r) ==
  /\ rec[r].produced = MaxFrames
  /\ \A w \in Workers : loc[w].stream = r => loc[w].frame = None

\* connect_stream called once
connect_once(t) == ncalls = 0 /\ call_connect_stream(t)

\* get_frame called only after the pushes
drain_get_frame(t) ==
  /\ \E k \in Keys(streams) : PushDone(streams[k])
  /\ call_get_frame(t)

Init12 == Init /\ viewer
Next12 ==
  \E t \in Threads :
    \/ connect_once(t) \/ connect_open_fails(t) \/ connect_open(t) \/ connect_start(t)
    \/ capture_enter(t) \/ capture_test(t) \/ capture_read(t)
    \/ capture_read_fails(t) \/ capture_full(t) \/ capture_evict(t)
    \/ capture_put(t) \/ capture_store(t) \/ capture_check(t)
    \/ capture_except(t) \/ reconnect_test(t) \/ reconnect_url(t)
    \/ disconnect_test(t) \/ disconnect_flag(t) \/ disconnect_jointest(t)
    \/ disconnect_join(t)
    \/ drain_get_frame(t) \/ get_frame_lookup(t) \/ get_frame_get(t)
    \/ get_frame_store(t)
Spec12 == Init12 /\ [][Next12]_vars

\* C12: after N = MaxFrames pushes into an empty buffer of capacity C < N
\* with no get_frame in between, the get_frame calls take frame N-C+1 first
\* and then each next frame in production order up to N, and with the buffer
\* empty they return last_frame, which is frame N.
C12_Take ==
  (pc[Con] = "gf_get" /\ Moves(Con) /\ buffer_size < MaxFrames) =>
    LET s == loc[Con].stream
        last == rec[s].last_frame IN
      IF rec[s].buffer = <<>>
        THEN /\ last = MaxFrames
             /\ result'[Con] = Returned("get_frame", loc[Con].id, MaxFrames)
        ELSE /\ loc'[Con].frame =
                  IF last = MaxFrames THEN MaxFrames - buffer_size + 1 ELSE last + 1
             /\ Len(rec[s].buffer) = MaxFrames - loc'[Con].frame + 1
C12_Return ==
  (pc[Con] = "gf_last" /\ Moves(Con)) =>
    result'[Con] = Returned("get_frame", loc[Con].id, loc[Con].frame)
IsConnected(id) ==
  /\ id \in Keys(streams)
  /\ rec[streams[id]].connected
  /\ rec[streams[id]].error_count < ErrorThreshold

\* C13: once is_connected(id) is false with error_count at 10 or more, it
\* becomes true again only on a record other than that one, stored by a
\* reconnection.
C13_OnlyAfterReconnect ==
  [][\A id \in CameraIds :
       (/\ id \in Keys(streams)
        /\ rec[streams[id]].error_count >= ErrorThreshold
        /\ ~IsConnected(id)
        /\ IsConnected(id)') => streams'[id] # streams[id]]_vars

\* --------------------------------------------- a source whose reads all fail
\* connect_stream called once, every cap.read() of the worker failing, and a
\* consumer polling is_connected; every thread that can run does run.
WorkerStep14(t) ==
  \/ capture_enter(t) \/ capture_test(t) \/ capture_read_fails(t)
  \/ capture_check(t) \/ capture_except(t)
  \/ reconnect_test(t) \/ reconnect_url(t)
  \/ disconnect_test(t) \/ disconnect_flag(t) \/ disconnect_jointest(t)
  \/ disconnect_join(t)
ManagerStep14(t) ==
  \/ connect_once(t) \/ connect_open_fails(t) \/ connect_open(t) \/ connect_start(t)
ConsumerStep14(t) ==
  \/ call_is_connected(t) \/ is_connected_flag(t) \/ is_connected_errors(t)
Init14 == Init /\ viewer
Next14 ==
  \E t \in Threads : ManagerStep14(t) \/ WorkerStep14(t) \/ ConsumerStep14(t)
Spec14 ==
  /\ Init14 /\ [][Next14]_vars
  /\ \A t \in Threads : WF_vars(ManagerStep14(t)) /\ WF_vars(WorkerStep14(t))

\* C14: on a source whose reads all fail, is_connected answers True while the
\* record's error_count is below 10 and False from 10 on, and whenever a
\* worker has been started _reconnect_stream is called later on.
C14_Answer ==
  (result[Con].op = "is_connected" /\ result[Con].kind = "value"
     /\ result[Con].id \in Keys(streams)) =>
    (result[Con].val <=> rec[streams[result[Con].id]].error_count < 10)
C14_State ==
  \A id \in Keys(streams) :
    IsConnected(id) <=> rec[streams[id]].error_count < 10
C14_Attempted == \E w \in Workers : pc[w] = "rc_chk"
C14_FailingSource ==
  /\ [](C14_Answer /\ C14_State)
  /\ (\E w \in Workers : pc[w] = "w_start") ~> C14_Attempted

\* is_connected has answered False while the worker, its eleventh failure
\* counted, enters _reconnect_stream.
C14_Witness ==
  /\ result[Con] = Returned("is_connected", 0, FALSE)
  /\ 0 \in Keys(streams)
  /\ rec[streams[0]].connected
  /\ rec[streams[0]].error_count = 11
  /\ C14_Attempted


\* C15: once get_frame has returned a frame of a record, the record's
\* last_frame holds a frame for as long as the record lives, and a get_frame
\* that finds a frame in last_frame returns a frame, whether or not the
\* buffer is empty.
C15_Cached ==
  (pc[Con] \in {"gf_get", "gf_last"} /\ loc[Con].dctx = ""
     /\ result'[Con].op = "get_frame" /\ result'[Con].kind = "value"
     /\ result'[Con].val # None /\ Kept(loc[Con].stream)) =>
    rec'[loc[Con].stream].last_frame # None
C15_Stays ==
  \A r \in DOMAIN rec :
    (rec[r].last_frame # None /\ Kept(r)) =>
      rec'[r].last_frame # None /\ rec'[r].url = rec[r].url
C15_Served ==
  (pc[Con] = "gf_get" /\ Moves(Con) /\ loc[Con].dctx = ""
     /\ rec[loc[Con].stream].last_frame # None) =>
    \/ pc'[Con] = "gf_last" /\ loc'[Con].frame # None
    \/ /\ result'[Con].op = "get_frame" /\ result'[Con].kind = "value"
       /\ result'[Con].val # None
C15_NeverNoneAgain == [][C15_Cached /\ C15_Stays /\ C15_Served]_vars

\* get_frame has returned frame 1 from a record whose buffer is empty, while
\* the worker has read its second frame and not yet buffered it.
C15_Witness ==
  /\ result[Con] = Returned("get_frame", 0, 1)
  /\ 0 \in Keys(streams)
  /\ rec[streams[0]].buffer = <<>>
  /\ rec[streams[0]].last_frame = 1
  /\ \E w \in RunningFor(0) : pc[w] \in {"w_full", "w_put"} /\ loc[w].frame = 2


\* ------------------------------------- one stream connected, then disconnected
\* connect_stream called once and then disconnect_stream or disconnect_all,
\* beside a consumer calling get_frame and capture_frame.  Every thread that
\* can take a step takes one in the end, except a worker inside a cap.read()
\* that stalls.
ManagerStep16(t) ==
  \/ connect_once(t) \/ reconnect_connect(t)
  \/ connect_open_fails(t) \/ connect_open(t) \/ connect_start(t)
  \/ call_disconnect_stream(t)
  \/ disconnect_test(t) \/ disconnect_flag(t) \/ disconnect_jointest(t)
  \/ disconnect_join(t) \/ disconnect_forget(t) \/ disconnect_release(t)
  \/ disconnect_drain(t) \/ disconnect_remove(t)
  \/ disconnect_all_flag(t) \/ disconnect_all_keys(t) \/ disconnect_all_next(t)
ConsumerStep16(t) ==
  \/ call_get_frame(t) \/ call_capture_frame(t) \/ capture_frame_get(t)
  \/ get_frame_lookup(t) \/ get_frame_get(t) \/ get_frame_store(t)
Scheduled16(t) ==
  /\ ManagerStep16(t) \/ WorkerStep(t)
  /\ stall => pc[t] # "w_read"
Next16 ==
  \E t \in Threads : ManagerStep16(t) \/ WorkerStep(t) \/ ConsumerStep16(t)
Spec16 ==
  /\ Init /\ [][Next16]_vars
  /\ \A t \in Workers \cup {Ctl} : WF_vars(Scheduled16(t))

\* C16: every call of the manager thread returns in the end, disconnect_stream
\* and disconnect_all among them, also when the worker stays blocked in a
\* read: the join then gives up, and the call goes on to release the handle
\* of the id's record and to remove the record; and no step of get_frame or
\* capture_frame waits for anything.
C16_JoinGivesUp ==
  (/\ stall /\ pc[Ctl] = "ds_join"
   /\ loc[Ctl].id \in Keys(capture_threads)
   /\ pc[capture_threads[loc[Ctl].id]] = "w_read") => ENABLED disconnect_join(Ctl)
C16_NoWait ==
  pc[Con] \in {"cf_call", "gf_look", "gf_get", "gf_last"} => ENABLED ConsumerStep16(Con)
C16_GoesOn ==
  /\ (pc[Ctl] = "ds_rel" /\ Moves(Ctl) /\ loc[Ctl].id \in Keys(streams)) =>
       rec'[streams[loc[Ctl].id]].released
  /\ (pc[Ctl] = "ds_remove" /\ Moves(Ctl) /\ loc[Ctl].id \in Keys(streams)) =>
       loc[Ctl].id \notin Keys(streams')
C16_AlwaysReturns ==
  /\ (pc[Ctl] # "idle") ~> (pc[Ctl] = "idle")
  /\ [](C16_JoinGivesUp /\ C16_NoWait)
  /\ [][C16_GoesOn]_vars

\* disconnect_stream(0) has returned, the record removed and its handle
\* released, while the worker it gave up waiting for is still in cap.read().
C16_Witness ==
  /\ stall
  /\ result[Ctl] = Returned("disconnect_stream", 0, None)
  /\ 0 \notin Keys(streams) /\ 0 \notin Keys(capture_threads)
  /\ \E w \in Workers :
       /\ pc[w] = "w_read" /\ loc[w].id = 0
       /\ rec[loc[w].stream].released /\ ~rec[loc[w].stream].connected


\* ------------------------------------------------ no worker connects again
\* The manager's calls and the workers, without the connect_stream call of
\* _reconnect_stream (line 188) and without a consumer.
ManagerStep17(t) ==
  \/ call_connect_stream(t)
  \/ connect_open_fails(t) \/ connect_open(t) \/ connect_start(t)
  \/ call_disconnect_stream(t)
  \/ disconnect_test(t) \/ disconnect_flag(t) \/ disconnect_jointest(t)
  \/ disconnect_join(t) \/ disconnect_forget(t) \/ disconnect_release(t)
  \/ disconnect_drain(t) \/ disconnect_remove(t)
  \/ disconnect_all_flag(t) \/ disconnect_all_keys(t) \/ disconnect_all_next(t)
Next17 == \E t \in Threads : ManagerStep17(t) \/ WorkerStep(t)
Spec17 == Init /\ [][Next17]_vars

\* C17: disconnect_all clears active before it touches any record and active
\* stays clear while it runs; a worker that tests its loop condition with
\* active clear leaves the loop whatever its connected flag; and when
\* disconnect_all returns, no connect_stream running beside it, streams and
\* capture_threads are empty.
InDisconnectAll ==
  \/ pc[Ctl] \in {"da_keys", "da_loop"}
  \/ pc[Ctl] \in DisconnectPcs /\ loc[Ctl].dctx = "all"
C17_First ==
  (pc[Ctl] = "idle" /\ pc'[Ctl] = "da_keys") =>
    ~active' /\ UNCHANGED <<streams, capture_threads, rec>>
C17_Exit ==
  \A w \in Workers :
    (pc[w] = "w_loop" /\ Moves(w) /\ ~active) => pc'[w] = "w_done"
C17_Empty ==
  result[Ctl].op = "disconnect_all" /\ result[Ctl].kind = "value" =>
    Keys(streams) = {} /\ Keys(capture_threads) = {}
C18_Unknown ==
  /\ (pc[Con] \in {"idle", "cf_call"} /\ result'[Con].op = "capture_frame")
       => /\ result'[Con] = Returned("capture_frame", result'[Con].id, None)
          /\ result'[Con].id \notin Keys(streams)
  /\ (pc[Con] = "cf_call" /\ Moves(Con) /\ loc[Con].id \in Keys(streams))
       => pc'[Con] = "gf_look"
C18_Take ==
  (pc[Con] = "gf_get" /\ Moves(Con) /\ loc[Con].dctx = "capture") =>
    LET s == loc[Con].stream IN
      IF rec[s].buffer # <<>>
        THEN /\ pc'[Con] = "gf_last"
             /\ loc'[Con].frame = Head(rec[s].buffer)
             /\ rec'[s].buffer = Tail(rec[s].buffer)
             /\ rec'[s].last_frame = rec[s].last_frame
        ELSE /\ result'[Con] =
                  IF rec[s].last_frame = None
                    THEN Returned("capture_frame", loc[Con].id, None)
                    ELSE Copied("capture_frame", loc[Con].id, rec[s].last_frame)
             /\ Kept(s) => rec'[s] = rec[s]
C18_Store ==
  (pc[Con] = "gf_last" /\ Moves(Con) /\ loc[Con].dctx = "capture") =>
    /\ result'[Con] = Copied("capture_frame", loc[Con].id, loc[Con].frame)
    /\ Kept(loc[Con].stream) =>
         rec'[loc[Con].stream] =
           [rec[loc[Con].stream] EXCEPT !.last_frame = loc[Con].frame]
ConsumerStep19(t) ==
  \/ call_get_stream_info(t) \/ get_stream_info_test(t) \/ get_stream_info_read(t)
  \/ call_get_all_stream_info(t) \/ get_all_stream_info_next(t)
Init19 == Init /\ viewer
Next19 ==
  \E t \in Threads :
    ManagerStep17(t) \/ WorkerStep(t) \/ capture_second(t) \/ ConsumerStep19(t)
Spec19 == Init19 /\ [][Next19]_vars

InfoPcs == {"gi_chk", "gi_look", "ga_next"}
C19_Unknown ==
  /\ (pc[Con] = "idle" /\ result'[Con].op = "get_stream_info")
       => /\ result'[Con] = Returned("get_stream_info", result'[Con].id, None)
          /\ result'[Con].id \notin Keys(streams)
  /\ (pc[Con] = "idle" /\ pc'[Con] = "gi_look") => loc'[Con].id \in Keys(streams)
C19_Read ==
  (pc[Con] = "gi_look" /\ Moves(Con) /\ loc[Con].id \in Keys(streams)) =>
    LET r == rec[streams[loc[Con].id]]
        info == [connected |-> r.connected, fps |-> r.fps,
                 frame_count |-> r.frame_count,
                 error_count |-> r.error_count, url |-> r.url] IN
      IF loc[Con].dctx = "all"
        THEN loc'[Con].acc = Append(loc[Con].acc, <<loc[Con].id, info>>)
        ELSE result'[Con] = Returned("get_stream_info", loc[Con].id, info)
C19_Entry ==
  (pc[Con] = "gi_chk" /\ Moves(Con)) =>
    IF loc[Con].id \in Keys(streams)
      THEN pc'[Con] = "gi_look"
      ELSE loc'[Con].acc = Append(loc[Con].acc, <<loc[Con].id, None>>)
C19_All ==
  (pc[Con] = "ga_next" /\ result'[Con].op = "get_all_stream_info"
     /\ result'[Con].kind = "value") =>
    /\ result'[Con].val = loc[Con].acc
    /\ {loc[Con].acc[i][1] : i \in DOMAIN loc[Con].acc} = Keys(streams')
    /\ Len(loc[Con].acc) = Cardinality(Keys(streams'))
C19_ReadOnly ==
  ((pc[Con] \in InfoPcs /\ Moves(Con))
     \/ (pc[Con] = "idle" /\ pc'[Con] \in InfoPcs)
     \/ (pc[Con] = "idle" /\ result'[Con].op = "get_stream_info")) =>
    UNCHANGED <<buffer_size, streams, capture_threads, active, rec>>
BufferSizes == -1..MaxBufferSize
Init20 ==
  /\ NoProbe /\ NoPi /\ NoRtsp
  /\ current_frame = None
  /\ buffer_size \in BufferSizes
  /\ streams = EmptyDict
  /\ capture_threads = EmptyDict
  /\ active = FALSE
  /\ rec = [x \in {} |-> None]
  /\ pc = [t \in Threads |-> IF t \in Workers THEN "unborn" ELSE "idle"]
  /\ loc = [t \in Threads |-> NoLocals]
  /\ result = NoResults
  /\ ncalls = 0
  /\ viewer = TRUE /\ stall = FALSE
Spec20 == Init20 /\ [][Next12]_vars
C20_PositiveCapacity ==
  \A id \in Keys(streams) : rec[streams[id]].maxsize >= 1


\* ------------------------------------------- CameraManager.detect_cameras
\* src/raspberry_pi/camera_manager.py, lines 27-53.  Device index x is
\* devices[x + 1].
DeviceKinds == {"none", "mute", "ok"}
Manager == <<buffer_size, streams, capture_threads, active, rec, pc, loc,
             result, ncalls, viewer, stall, current_frame, Pi, Rtsp>>
Environment == <<max_cameras, devices>>

\* line 37
call_detect_cameras ==
  /\ detect_pc = "idle"
  /\ available_cameras' = <<>> /\ dev' = 0
  /\ detect_pc' = "dc_for"
  /\ UNCHANGED <<Manager, Environment, handles, detected>>

\* lines 39-41: the next index of range(max_cameras * 2), opened
detect_open ==
  /\ detect_pc = "dc_for"
  /\ IF dev < max_cameras * 2
       THEN IF devices[dev + 1] # "none"
              THEN /\ handles' = handles \cup {dev}
                   /\ detect_pc' = "dc_read" /\ UNCHANGED dev
              ELSE /\ dev' = dev + 1
                   /\ UNCHANGED <<handles, detect_pc>>
       ELSE detect_pc' = "dc_ret" /\ UNCHANGED <<dev, handles>>
  /\ UNCHANGED <<Manager, Environment, available_cameras, detected>>

\* A probe that lists every index that opens.
detect_read_unverified ==
  /\ detect_pc = "dc_read"
  /\ available_cameras' = Append(available_cameras, dev)
  /\ detect_pc' = "dc_rel"
  /\ UNCHANGED <<Manager, Environment, dev, handles, detected>>

\* lines 43-46
detect_read ==
  /\ detect_pc = "dc_read"
  /\ available_cameras' =
       IF devices[dev + 1] = "ok" THEN Append(available_cameras, dev)
                                ELSE available_cameras
  /\ detect_pc' = "dc_rel"
  /\ UNCHANGED <<Manager, Environment, dev, handles, detected>>

\* lines 47-50
detect_release ==
  /\ detect_pc = "dc_rel"
  /\ handles' = handles \ {dev}
  /\ IF Len(available_cameras) >= max_cameras
       THEN detect_pc' = "dc_ret" /\ UNCHANGED dev
       ELSE detect_pc' = "dc_for" /\ dev' = dev + 1
  /\ UNCHANGED <<Manager, Environment, available_cameras, detected>>

\* line 53: available_cameras[:max_cameras]
Slice(s, n) == SubSeq(s, 1, IF n < Len(s) THEN n ELSE Len(s))
detect_return ==
  /\ detect_pc = "dc_ret"
  /\ detected' = Slice(available_cameras, max_cameras)
  /\ detect_pc' = "dc_done"
  /\ UNCHANGED <<Manager, Environment, dev, available_cameras, handles>>

Init21 ==
  /\ max_cameras \in 0..MaxCameras
  /\ devices \in [1..(2 * MaxCameras) -> DeviceKinds]
  /\ dev = 0 /\ available_cameras = <<>> /\ handles = {}
  /\ detect_pc = "idle" /\ detected = <<>>
  /\ NoPi /\ NoRtsp
  /\ current_frame = None
  /\ buffer_size = 1
  /\ streams = EmptyDict
  /\ capture_threads = EmptyDict
  /\ active = FALSE
  /\ rec = [x \in {} |-> None]
  /\ pc = [t \in Threads |-> IF t \in Workers THEN "unborn" ELSE "idle"]
  /\ loc = [t \in Threads |-> NoLocals]
  /\ result = NoResults
  /\ ncalls = 0
  /\ viewer = TRUE /\ stall = FALSE
Next21 ==
  \/ call_detect_cameras \/ detect_open \/ detect_read \/ detect_release
  \/ detect_return
Spec21 == Init21 /\ [][Next21]_vars

\* C21: detect_cameras(max_cameras) returns at most max_cameras indices of
\* 0..2*max_cameras-1 in ascending order, each of a device that opened and
\* gave a frame at its test read, none of a device that opened and gave
\* none; and no handle it opened is still open when it returns.
C21_Detected ==
  detect_pc = "dc_done" =>
    /\ Len(detected) <= max_cameras
    /\ \A k \in DOMAIN detected :
         /\ detected[k] \in 0..(2 * max_cameras - 1)
         /\ devices[detected[k] + 1] = "ok"
    /\ \A k, l \in DOMAIN detected : k < l => detected[k] < detected[l]
    /\ handles = {}

\* The call has returned index 1 alone: index 0 opened but its test read
\* failed.
C21_Witness ==
  /\ detect_pc = "dc_done"
  /\ max_cameras = 1
  /\ devices[1] = "mute" /\ devices[2] = "ok"
  /\ detected = <<1>>


\* C22: every record of the registry whose connected flag is true has exactly
\* one worker thread running its capture loop, in every reachable state (a
\* record that connect_stream has stored and whose thread it is about to
\* start, lines 63-82, is not counted against the claim).
Starting(r) == \E t \in Threads : pc[t] = "cs_start" /\ loc[t].n = r
WorkersOn(id) ==
  {w \in Workers :
     /\ Running(w)
     /\ \/ loc[w].stream = streams[id]
        \/ pc[w] = "w_start" /\ loc[w].id = id}
C22_ExactlyOneWorker ==
  \A id \in Keys(streams) :
    (rec[streams[id]].connected /\ ~Starting(streams[id])) =>
      Cardinality(WorkersOn(id)) = 1


\* C23: a successful read is followed, before the worker is back at the top
\* of its loop, by error_count = 0 on its record, whatever the count was; no
\* step of the success branch leaves it by an exception, and nothing but the
\* worker's next read changes the count after that.
SuccessPcs == {"w_full", "w_evict", "w_put", "w_last"}
C23_Branch(w) ==
  (pc[w] \in SuccessPcs /\ Moves(w)) =>
    /\ pc'[w] \in (SuccessPcs \cup {"w_loop"})
    /\ pc'[w] = "w_loop" <=> pc[w] = "w_last"
C23_Reset(w) ==
  (pc[w] = "w_last" /\ Moves(w)) => rec'[loc[w].stream].error_count = 0
C23_Stays(w) ==
  (pc[w] = "w_loop" /\ loc[w].stream # None /\ Kept(loc[w].stream)) =>
    rec'[loc[w].stream].error_count = rec[loc[w].stream].error_count
C23_ResetOnSuccess ==
  [][\A w \in Workers : C23_Branch(w) /\ C23_Reset(w) /\ C23_Stays(w)]_vars

\* A read has succeeded on a record that has counted ten or more failures and
\* the worker is about to store the frame.
C23_Witness ==
  \E w \in Workers :
    /\ pc[w] = "w_last"
    /\ rec[loc[w].stream].error_count >= ErrorThreshold

\* C24: a record's error_count changes only by + 1 at a failed read of its
\* worker and by the reset to 0 after a successful one, so that between loop
\* iterations it is the number of failed reads since the last success.
FailedRead(w) == pc[w] = "w_read" /\ pc'[w] = "w_chk"
C24_Steps(r) ==
  rec'[r].error_count # rec[r].error_count =>
    \E w \in Workers :
      /\ loc[w].stream = r
      /\ \/ FailedRead(w) /\ rec'[r].error_count = rec[r].error_count + 1
         \/ pc[w] = "w_last" /\ Moves(w) /\ rec'[r].error_count = 0
C24_ConsecutiveFailures ==
  [][\A r \in DOMAIN rec : Kept(r) => C24_Steps(r)]_vars


\* C25: a push evicts at most one frame, and only from a buffer that holds
\* buffer_size frames when the frame is removed; the put that follows is never
\* blocked and always appends the frame; whatever get_frame calls run beside.
\* Checked on runs of one stream whose handle delivers one frame more than
\* the largest buffer holds, with a consumer calling get_frame at any time.
LongRun == MaxBufferSize + 1
\* lines 137-149, as capture_read, for a handle that delivers LongRun frames
capture_read_long(t) ==
  /\ t \in Workers /\ pc[t] = "w_read"
  /\ LET s == loc[t].stream IN
       /\ ~rec[s].released
       /\ rec[s].produced < LongRun
       /\ SetRec(s, [rec[s] EXCEPT !.produced = @ + 1, !.frame_count = @ + 1])
       /\ SetLoc(t, [loc[t] EXCEPT !.frame = rec[s].produced + 1,
                                   !.fps_counter = @ + 1])
  /\ SetPc(t, "w_full")
  /\ UNCHANGED <<Config, ncalls, Registry>> /\ Quiet
Init25 == Init /\ viewer
Next25 ==
  \E t \in Threads :
    \/ connect_once(t) \/ connect_open_fails(t) \/ connect_open(t) \/ connect_start(t)
    \/ capture_enter(t) \/ capture_test(t) \/ capture_read_long(t)
    \/ capture_full(t) \/ capture_evict(t) \/ capture_put(t) \/ capture_store(t)
    \/ call_get_frame(t) \/ get_frame_lookup(t) \/ get_frame_get(t)
    \/ get_frame_store(t)
Spec25 == Init25 /\ [][Next25]_vars

C25_Evicts(w) ==
  (pc[w] = "w_evict" /\ Moves(w)) =>
    LET s == loc[w].stream IN
      /\ pc'[w] = "w_put"
      /\ rec'[s].buffer # rec[s].buffer =>
           /\ Len(rec[s].buffer) = buffer_size
           /\ rec'[s].buffer = Tail(rec[s].buffer)
C25_Inserts(w) ==
  (pc[w] = "w_put" /\ Moves(w)) =>
    LET s == loc[w].stream IN
      /\ pc'[w] = "w_last"
      /\ rec'[s].buffer = Append(rec[s].buffer, loc[w].frame)
C25_NotBlocked(w) ==
  pc[w] = "w_put" => Len(rec[loc[w].stream].buffer) < buffer_size
C25_Push ==
  [][\A w \in Workers :
       C25_Evicts(w) /\ C25_Inserts(w) /\ C25_NotBlocked(w)]_vars


\* C26: once disconnect_stream has set a record's connected flag to false, or
\* disconnect_all has cleared active, the record's worker starts no further
\* loop iteration: a read is started only from the loop test and only when
\* both flags are true there, the test otherwise ends the loop, a record's
\* connected flag never turns true again, and active stays false while
\* disconnect_all runs.
C26_Test(w) ==
  /\ (pc'[w] = "w_read" /\ pc[w] # "w_read") =>
       /\ pc[w] = "w_loop"
       /\ active /\ rec[loc[w].stream].connected
  /\ (pc[w] = "w_loop" /\ Moves(w)
        /\ ~(active /\ rec[loc[w].stream].connected)) => pc'[w] = "w_done"
C26_Stable ==
  /\ \A r \in DOMAIN rec : (~rec[r].connected /\ Kept(r)) => ~rec'[r].connected
  /\ (~active /\ InDisconnectAll) => ~active'
Unput(r) ==
  {w \in Workers : loc[w].stream = r /\ pc[w] \in {"w_full", "w_evict", "w_put"}}
Pushed(r) == IF Unput(r) = {} THEN rec[r].produced ELSE rec[r].produced - 1
MostRecentRemoved(r) ==
  IF rec[r].buffer = <<>> THEN Pushed(r) ELSE Head(rec[r].buffer) - 1
Dequeuing(r) == \E t \in Callers : pc[t] = "gf_last" /\ loc[t].stream = r
C27_LastFrameRecent ==
  \A id \in Keys(streams) :
    ~Dequeuing(streams[id]) =>
      rec[streams[id]].last_frame >= MostRecentRemoved(streams[id])


\* ------------------------------------ connect_stream, backend by backend
\* Lines 46-72 in the steps the code takes; loc[t].cap is the local `cap`:
\* the backend whose VideoCapture opened, or the one whose open failed.
Opened(c) == c \in {"GSTREAMER", "FFMPEG"}

\* line 46
connect_primary(t) ==
  /\ pc[t] = "cs_open"
  /\ \E isOpened \in BOOLEAN :
       SetLoc(t, [loc[t] EXCEPT !.cap = IF isOpened THEN "GSTREAMER"
                                                    ELSE "GSTREAMER failed"])
  /\ SetPc(t, "cs_fallback")
  /\ UNCHANGED <<Config, ncalls, Registry, rec>> /\ Quiet

\* A connect_stream that opens the FFMPEG backend whatever the first did.
connect_fallback_always(t) ==
  /\ pc[t] = "cs_fallback"
  /\ \E isOpened \in BOOLEAN :
       SetLoc(t, [loc[t] EXCEPT !.cap = IF isOpened THEN "FFMPEG"
                                                    ELSE "FFMPEG failed"])
  /\ SetPc(t, "cs_opened")
  /\ UNCHANGED <<Config, ncalls, Registry, rec>> /\ Quiet

\* lines 48-50
connect_fallback(t) ==
  /\ pc[t] = "cs_fallback"
  /\ IF Opened(loc[t].cap)
       THEN UNCHANGED loc
       ELSE \E isOpened \in BOOLEAN :
              SetLoc(t, [loc[t] EXCEPT !.cap = IF isOpened THEN "FFMPEG"
                                                           ELSE "FFMPEG failed"])
  /\ SetPc(t, "cs_opened")
  /\ UNCHANGED <<Config, ncalls, Registry, rec>> /\ Quiet

\* lines 52-54
connect_unopened(t) ==
  /\ pc[t] = "cs_opened"
  /\ ~Opened(loc[t].cap)
  /\ ConnectReturn(t, FALSE)
  /\ UNCHANGED <<Config, ncalls, Registry, rec>>

\* lines 57-72
connect_record(t) ==
  /\ pc[t] = "cs_opened"
  /\ Opened(loc[t].cap)
  /\ Cardinality(DOMAIN rec) < MaxRecs
  /\ LET r == Cardinality(DOMAIN rec) + 1 IN
       /\ streams' = Put(streams, loc[t].id, r)
       /\ SetLoc(t, [loc[t] EXCEPT !.n = r])
       /\ rec' = Collect(Put(rec, r, NewRecord(loc[t].url)), streams', loc')
  /\ SetPc(t, "cs_start")
  /\ UNCHANGED <<Config, ncalls, capture_threads, active>> /\ Quiet

ManagerStep28(t) ==
  \/ call_connect_stream(t)
  \/ connect_primary(t) \/ connect_fallback(t) \/ connect_unopened(t)
  \/ connect_record(t) \/ connect_start(t)
  \/ call_disconnect_stream(t)
  \/ disconnect_test(t) \/ disconnect_flag(t) \/ disconnect_jointest(t)
  \/ disconnect_join(t) \/ disconnect_forget(t) \/ disconnect_release(t)
  \/ disconnect_drain(t) \/ disconnect_remove(t)
Init28 == Init /\ viewer
Next28 == \E t \in Threads : ManagerStep28(t) \/ WorkerStep(t)
Spec28 == Init28 /\ [][Next28]_vars

\* C28: connect_stream tries the FFMPEG backend only when the GStreamer open
\* did not succeed; it returns False when neither opened; when one opened it
\* stores for the id a record with connected = true, error_count = 0,
\* frame_count = 0, last_frame = None and an empty buffer, starts the worker
\* and returns True; and it returns True in no other way.
C28_Fallback(t) ==
  (loc'[t].cap \in {"FFMPEG", "FFMPEG failed"} /\ loc'[t].cap # loc[t].cap) =>
    loc[t].cap = "GSTREAMER failed"
C28_Outcome(t) ==
  (pc[t] = "cs_opened" /\ Moves(t)) =>
    IF Opened(loc[t].cap)
      THEN /\ pc'[t] = "cs_start"
           /\ loc[t].id \in Keys(streams')
           /\ LET r == rec'[streams'[loc[t].id]] IN
                /\ r.connected /\ r.error_count = 0 /\ r.frame_count = 0
                /\ r.last_frame = None /\ r.buffer = <<>>
                /\ r.url = loc[t].url
      ELSE /\ result'[Ctl] = Returned("connect_stream", loc[t].id, FALSE)
           /\ UNCHANGED <<streams, capture_threads, active, rec>>
C28_Started(t) ==
  (pc[t] = "cs_start" /\ Moves(t)) =>
    /\ Opened(loc[t].cap)
    /\ pc'[loc[t].n] = "w_start" /\ loc'[loc[t].n].id = loc[t].id
    /\ capture_threads'[loc[t].id] = loc[t].n
    /\ result'[Ctl] = Returned("connect_stream", loc[t].id, TRUE)
C28_True(t) ==
  (result'[t].op = "connect_stream" /\ result'[t].val = TRUE) =>
    pc[t] = "cs_start"
C28_Connect ==
  [][/\ \A t \in Threads : C28_Fallback(t)
     /\ C28_Outcome(Ctl) /\ C28_Started(Ctl) /\ C28_True(Ctl)]_vars

\* The GStreamer open having failed, connect_stream has opened the stream
\* on the FFMPEG backend and stored the record; it is about to start the
\* worker.
C28_Witness ==
  /\ pc[Ctl] = "cs_start" /\ loc[Ctl].cap = "FFMPEG"
  /\ loc[Ctl].id \in Keys(streams)
  /\ streams[loc[Ctl].id] = loc[Ctl].n


\* ---------------------------------------- CameraViewer._update_loop
\* src/base_station/camera_viewer.py, lines 134-155: the viewer's thread
\* calls get_frame and keeps the frame it got as current_frame.  get_frame is
\* taken queue operation by queue operation: the get_nowait that raises Empty
\* (206) and the read of last_frame in the handler (212) are two steps.

\* stream_manager.py lines 206-207: get_nowait()
update_take(t) ==
  /\ pc[t] = "gf_get"
  /\ LET s == loc[t].stream IN
       IF QueueEmpty(rec[s])
         THEN /\ SetPc(t, "gf_empty")
              /\ UNCHANGED <<rec, loc>>
         ELSE /\ SetRec(s, [rec[s] EXCEPT !.buffer = Tail(@)])
              /\ SetLoc(t, [loc[t] EXCEPT !.frame = Head(rec[s].buffer)])
              /\ SetPc(t, "gf_last")
  /\ Quiet
  /\ UNCHANGED <<Config, ncalls, Registry>>

\* stream_manager.py lines 210-212, camera_viewer.py lines 138-155
update_cached(t) ==
  /\ pc[t] = "gf_empty"
  /\ LET frame == rec[loc[t].stream].last_frame IN
       /\ GetFrameReturn(t, frame)
       /\ current_frame' = IF frame # None THEN frame ELSE current_frame
  /\ UNCHANGED <<Fixed, ncalls, Registry>>

\* stream_manager.py lines 208-209, camera_viewer.py lines 138-155
update_store(t) ==
  /\ pc[t] = "gf_last"
  /\ SetPc(t, "idle")
  /\ SetLoc(t, NoLocals)
  /\ result' = [NoResults EXCEPT ![t] = Returned("get_frame", loc[t].id, loc[t].frame)]
  /\ rec' = Collect([rec EXCEPT ![loc[t].stream].last_frame = loc[t].frame],
                    streams, loc')
  /\ current_frame' = loc[t].frame
  /\ UNCHANGED <<Fixed, ncalls, Registry>>

Init29 == Init /\ viewer
Next29 ==
  \E t \in Threads :
    \/ connect_once(t) \/ connect_open_fails(t) \/ connect_open(t) \/ connect_start(t)
    \/ capture_enter(t) \/ capture_test(t) \/ capture_read(t)
    \/ capture_full(t) \/ capture_evict(t) \/ capture_put(t) \/ capture_store(t)
    \/ call_get_frame(t) \/ get_frame_lookup(t)
    \/ update_take(t) \/ update_cached(t) \/ update_store(t)
Spec29 == Init29 /\ [][Next29]_vars

\* C29: the frames one consumer thread gets from get_frame on one record,
\* call after call, never go back in production order.
C29_NeverOlder == [][current_frame' >= current_frame]_vars


\* C30: a worker whose record has been replaced in the registry (its id now
\* maps to another record) changes, by no step it takes, the replacement
\* record, its buffer and handle, the registry entries of the id, or the
\* replacement's worker.
Replaced(w) ==
  /\ Running(w) /\ loc[w].stream # None
  /\ loc[w].id \in Keys(streams)
  /\ streams[loc[w].id] # loc[w].stream
C30_Untouched(w) ==
  (Replaced(w) /\ Moves(w)) =>
    LET id == loc[w].id
        n == streams[id] IN
      /\ id \in Keys(streams') /\ streams'[id] = n
      /\ rec'[n] = rec[n]
      /\ pc'[n] = pc[n] /\ loc'[n] = loc[n]
      /\ (id \in Keys(capture_threads)) = (id \in Keys(capture_threads'))
      /\ id \in Keys(capture_threads) => capture_threads'[id] = capture_threads[id]
C30_StaleWorkerHarmless == [][\A w \in Workers : C30_Untouched(w)]_vars


\* C31: no record is left behind half-disconnected. Once no thread is inside
\* disconnect_stream any more, a record whose connected flag is false and
\* whose worker has left _capture_loop is out of self.streams, its thread is
\* out of self.capture_threads and its capture handle is released, also when
\* the worker itself ran the disconnect on its way through _reconnect_stream.
Disconnecting == \E t \in Threads : pc[t] \in DisconnectPcs
Registered(r) == \E k \in Keys(streams) : streams[k] = r
ThreadKept(r) == \E k \in Keys(capture_threads) : capture_threads[k] = r
C31_NoHalfDisconnect ==
  \A r \in DOMAIN rec :
    (~rec[r].connected /\ Ended(r) /\ ~Disconnecting) =>
      /\ ~Registered(r)
      /\ ~ThreadKept(r)
      /\ rec[r].released


\* ---------------------------------------------------------- CameraManager
\* src/raspberry_pi/camera_manager.py, lines 55-215, used by one thread (the
\* server's main thread): each call is one step.  A VideoCapture handle is
\* modelled by what it does when asked: "ok" (isOpened, read gives a frame),
\* "mute" (isOpened, read gives none) or "closed" (not isOpened).  Of an info
\* record only the status is kept.
PiCameras == 0..(MaxCameras - 1)
HandleKinds == {"ok", "mute", "closed"}
Station == <<buffer_size, streams, capture_threads, active, rec, pc, loc,
             result, ncalls, viewer, stall, current_frame>>
NoStation ==
  /\ current_frame = None
  /\ buffer_size = 1
  /\ streams = EmptyDict
  /\ capture_threads = EmptyDict
  /\ active = FALSE
  /\ rec = [x \in {} |-> None]
  /\ pc = [t \in Threads |-> IF t \in Workers THEN "unborn" ELSE "idle"]
  /\ loc = [t \in Threads |-> NoLocals]
  /\ result = NoResults
  /\ ncalls = 0
  /\ viewer = TRUE /\ stall = FALSE
Others == <<Station, Probe, Rtsp>>
Status(s) == [status |-> s]

\* lines 65-95 on the registry c: cv2.VideoCapture(camera_index) gives the
\* handle cap; one that is not opened returns False (68-70), any other is
\* stored with its info record (82-87).
InitializeCamera(c, camera_index, cap) ==
  IF cap = "closed"
    THEN cameras' = c /\ UNCHANGED camera_info
    ELSE /\ cameras' = Put(c, camera_index, cap)
         /\ camera_info' = Put(camera_info, camera_index, Status("active"))

\* lines 55-95
initialize_camera(camera_index) ==
  /\ monitor_pc = "idle"
  /\ \E cap \in HandleKinds : InitializeCamera(cameras, camera_index, cap)
  /\ UNCHANGED <<health, pending, monitor_pc, Others>>

\* lines 170-175 on the registry: release and del self.cameras[camera_index]
\* when the index is a key (170-172), then initialize_camera (175)
ReconnectCamera(camera_index) ==
  \E cap \in HandleKinds :
    InitializeCamera(Del(cameras, camera_index), camera_index, cap)

\* lines 160-175
reconnect_camera(camera_index) ==
  /\ monitor_pc = "idle"
  /\ ReconnectCamera(camera_index)
  /\ UNCHANGED <<health, pending, monitor_pc, Others>>

\* lines 198-209: del self.camera_info[camera_index] raises KeyError for an
\* index without info record
release_camera(camera_index) ==
  /\ monitor_pc = "idle"
  /\ IF camera_index \in Keys(cameras)
       THEN /\ cameras' = Del(cameras, camera_index)
            /\ IF camera_index \in Keys(camera_info)
                 THEN /\ camera_info' = Del(camera_info, camera_index)
                      /\ UNCHANGED monitor_pc
                 ELSE monitor_pc' = "raised" /\ UNCHANGED camera_info
       ELSE UNCHANGED <<cameras, camera_info, monitor_pc>>
  /\ UNCHANGED <<health, pending, Others>>

\* lines 211-215: release_camera for every key of self.cameras
release_all_cameras ==
  /\ monitor_pc = "idle"
  /\ IF Keys(cameras) \subseteq Keys(camera_info)
       THEN /\ cameras' = EmptyDict
            /\ camera_info' =
                 [x \in Keys(camera_info) \ Keys(cameras) |-> camera_info[x]]
            /\ UNCHANGED monitor_pc
       ELSE /\ \E x \in Keys(cameras) \ Keys(camera_info) :
                 cameras' = Del(cameras, x)
            /\ monitor_pc' = "raised" /\ UNCHANGED camera_info
  /\ UNCHANGED <<health, pending, Others>>

\* The device behind a handle: it stops or resumes giving frames, or the
\* handle closes; a closed handle stays closed.
handle_changes(camera_index) ==
  /\ monitor_pc \in {"idle", "for"}
  /\ camera_index \in Keys(cameras)
  /\ cameras[camera_index] # "closed"
  /\ \E cap \in HandleKinds \ {cameras[camera_index]} :
       cameras' = [cameras EXCEPT ![camera_index] = cap]
  /\ UNCHANGED <<camera_info, health, pending, monitor_pc, Others>>

\* lines 145-156: the classification of one handle and the status stored
Health(cap) ==
  IF cap # "closed"
    THEN IF cap = "ok" THEN "healthy" ELSE "not_responding"
    ELSE "disconnected"
StatusFor(h) ==
  CASE h = "healthy" -> "active"
    [] h = "not_responding" -> "error"
    [] h = "disconnected" -> "disconnected"

\* lines 136-158, called by monitor_loop (line 171 of pi_streaming_server.py),
\* whose for loop (173) then takes the items of what it returned
check_camera_health ==
  /\ monitor_pc = "idle"
  /\ IF Keys(cameras) \subseteq Keys(camera_info)
       THEN /\ health' = [x \in Keys(cameras) |-> Health(cameras[x])]
            /\ camera_info' =
                 [x \in Keys(camera_info) |->
                    IF x \in Keys(cameras)
                      THEN [camera_info[x] EXCEPT
                              !.status = StatusFor(Health(cameras[x]))]
                      ELSE camera_info[x]]
            /\ pending' = Keys(cameras)
            /\ monitor_pc' = "for"
       ELSE /\ monitor_pc' = "raised"
            /\ UNCHANGED <<health, camera_info, pending>>
  /\ UNCHANGED <<cameras, Others>>

\* A monitor that reconnects every camera that is not healthy.
monitor_next_unhealthy ==
  /\ monitor_pc = "for"
  /\ \E cam_idx \in pending :
       /\ pending' = pending \ {cam_idx}
       /\ IF health[cam_idx] # "healthy"
            THEN ReconnectCamera(cam_idx)
            ELSE UNCHANGED <<cameras, camera_info>>
  /\ UNCHANGED <<health, monitor_pc, Others>>

\* pi_streaming_server.py, lines 173-181: the next item of health
monitor_next ==
  /\ monitor_pc = "for"
  /\ \E cam_idx \in pending :
       /\ pending' = pending \ {cam_idx}
       /\ IF health[cam_idx] = "disconnected"
            THEN ReconnectCamera(cam_idx)
            ELSE UNCHANGED <<cameras, camera_info>>
  /\ UNCHANGED <<health, monitor_pc, Others>>

\* pi_streaming_server.py, lines 183-189: the iteration ends
monitor_sleep ==
  /\ monitor_pc = "for"
  /\ pending = {}
  /\ monitor_pc' = "idle"
  /\ UNCHANGED <<cameras, camera_info, health, pending, Others>>

Init32 ==
  /\ NoStation /\ NoProbe /\ NoRtsp
  /\ cameras = EmptyDict /\ camera_info = EmptyDict /\ health = EmptyDict
  /\ pending = {} /\ monitor_pc = "idle"
Next32 ==
  \/ \E camera_index \in PiCameras :
       \/ initialize_camera(camera_index)
       \/ reconnect_camera(camera_index)
       \/ release_camera(camera_index)
       \/ handle_changes(camera_index)
  \/ release_all_cameras
  \/ check_camera_health \/ monitor_next \/ monitor_sleep
Spec32 == Init32 /\ [][Next32]_vars

\* C32: between two calls, self.cameras and self.camera_info have the same
\* keys, whatever initialize_camera, reconnect_camera, release_camera and
\* release_all_cameras calls were made and whichever opens failed.
C32_SameKeys ==
  monitor_pc = "idle" => Keys(cameras) = Keys(camera_info)


\* C33: check_camera_health returns an entry for exactly the cameras of
\* self.cameras: 'healthy' for a handle that is open and gives a frame,
\* 'not_responding' for one that is open and gives none, 'disconnected' for
\* one that is not open, and stores the status 'active', 'error' or
\* 'disconnected' accordingly; and the monitor's for loop calls
\* reconnect_camera only for a camera whose entry is 'disconnected'.
C33_Entry(x) ==
  /\ cameras[x] = "ok" =>
       health'[x] = "healthy" /\ camera_info'[x].status = "active"
  /\ cameras[x] = "mute" =>
       health'[x] = "not_responding" /\ camera_info'[x].status = "error"
  /\ cameras[x] = "closed" =>
       health'[x] = "disconnected" /\ camera_info'[x].status = "disconnected"
C33_Check ==
  (monitor_pc = "idle" /\ monitor_pc' = "for") =>
    /\ Keys(health') = Keys(cameras)
    /\ \A x \in Keys(cameras) : C33_Entry(x)
    /\ cameras' = cameras
C33_Touched(x) ==
  \/ (x \in Keys(cameras)) # (x \in Keys(cameras'))
  \/ (x \in Keys(camera_info)) # (x \in Keys(camera_info'))
  \/ x \in Keys(cameras) /\ x \in Keys(cameras') /\ cameras'[x] # cameras[x]
  \/ /\ x \in Keys(camera_info) /\ x \in Keys(camera_info')
     /\ camera_info'[x] # camera_info[x]
C33_Reconnect ==
  (monitor_pc = "for" /\ pending' # pending) =>
    \A x \in PiCameras : C33_Touched(x) => health[x] = "disconnected"
C33_Health == [][C33_Check /\ C33_Reconnect]_vars

\* The for loop is through a result with a camera that does not respond and
\* one that was disconnected: the first still has its handle, the second has
\* a new one that gives frames.
C33_Witness ==
  /\ monitor_pc = "for" /\ pending = {}
  /\ Keys(health) = {0, 1}
  /\ health[0] = "not_responding" /\ health[1] = "disconnected"
  /\ Keys(cameras) = {0, 1}
  /\ cameras[0] = "mute" /\ cameras[1] = "ok"
  /\ camera_info[0].status = "error" /\ camera_info[1].status = "active"


\* ------------------------------------------------------------- RTSPServer
\* src/raspberry_pi/rtsp_server.py, used by one thread: self.servers is a
\* dict, whose keys keep their insertion order; it is the sequence of its
\* items, each the camera index with the port and mount point its server was
\* given (set_service, add_factory).  self.factories has the same keys and
\* is never read.  A URL f"rtsp://{host}:{port}{mount}" is the record of its
\* three parts.
Host == "0.0.0.0"
base_port == 8554
MountPoints == <<"/cam1", "/cam2", "/cam3">>
Min(a, b) == IF a < b THEN a ELSE b
\* The indices start() passes (line 133 of pi_streaming_server.py): the
\* cameras detected, in ascending order, no more than there are mount points.
IndexLists ==
  {ci \in UNION {[1..n -> PiCameras] : n \in 0..Min(MaxCameras, Len(MountPoints))} :
     \A k, l \in DOMAIN ci : k < l => ci[k] < ci[l]}
ServerKeys == [k \in DOMAIN servers |-> servers[k].cam]
Index(keys, x) == CHOOSE k \in DOMAIN keys : keys[k] = x
HasServer(x) == \E k \in DOMAIN servers : servers[k].cam = x
Without(seq, x) == SelectSeq(seq, LAMBDA e : e.cam # x)
PiOthers == <<Station, Probe, Pi>>

\* lines 128-141
call_start_all_servers ==
  /\ rtsp_pc = "idle"
  /\ \E ci \in IndexLists : camera_indices' = ci
  /\ pos' = 0 /\ results' = EmptyDict
  /\ urls' = EmptyDict
  /\ rtsp_pc' = "sa_for"
  /\ UNCHANGED <<servers, PiOthers>>

\* lines 116-117: self.servers[camera_index] = server
Store(cam, port, mount) ==
  IF HasServer(cam)
    THEN [servers EXCEPT ![Index(ServerKeys, cam)] =
            [cam |-> cam, port |-> port, mount |-> mount]]
    ELSE Append(servers, [cam |-> cam, port |-> port, mount |-> mount])

\* lines 143-147 with start_server (77-126): the next pair of
\* zip(camera_indices, mount_points) on port base_port + i; a server whose
\* creation raises is not stored and gives False
start_all_next ==
  /\ rtsp_pc = "sa_for"
  /\ IF pos < Min(Len(camera_indices), Len(MountPoints))
       THEN /\ \E started \in BOOLEAN :
                 /\ servers' =
                      IF started
                        THEN Store(camera_indices[pos + 1], base_port + pos,
                                   MountPoints[pos + 1])
                        ELSE servers
                 /\ results' = Put(results, camera_indices[pos + 1], started)
            /\ pos' = pos + 1
            /\ UNCHANGED rtsp_pc
       ELSE rtsp_pc' = "idle" /\ UNCHANGED <<servers, results, pos>>
  /\ UNCHANGED <<camera_indices, urls, PiOthers>>

\* lines 165-184
stop_server(camera_index) ==
  /\ rtsp_pc = "idle"
  /\ servers' = Without(servers, camera_index)
  /\ urls' = EmptyDict
  /\ UNCHANGED <<camera_indices, pos, results, rtsp_pc, PiOthers>>

\* lines 198-212: None for a camera without server
get_stream_url(camera_index, mount_point) ==
  [host |-> Host,
   port |-> base_port + (Index(ServerKeys, camera_index) - 1),
   mount |-> mount_point]

\* lines 214-228
get_all_stream_urls ==
  /\ rtsp_pc = "idle"
  /\ urls' = [x \in {ServerKeys[k] : k \in 1..Min(Len(servers), Len(MountPoints))} |->
                get_stream_url(x, MountPoints[Index(ServerKeys, x)])]
  /\ UNCHANGED <<servers, camera_indices, pos, results, rtsp_pc, PiOthers>>

Init34 ==
  /\ NoStation /\ NoProbe /\ NoPi
  /\ servers = <<>> /\ camera_indices = <<>> /\ pos = 0
  /\ results = EmptyDict /\ urls = EmptyDict /\ rtsp_pc = "idle"
Next34 ==
  \/ call_start_all_servers \/ start_all_next
  \/ \E camera_index \in PiCameras : stop_server(camera_index)
  \/ get_all_stream_urls
Spec34 == Init34 /\ [][Next34]_vars

\* C34: the URL get_all_stream_urls (through get_stream_url) reports for a
\* camera with a server has the port and the mount point that server was
\* started on, base_port + the camera's position in start_all_servers' list
\* and the mount point at that position, also when another camera's start
\* failed or another server was stopped.
Server(x) == servers[Index(ServerKeys, x)]
C34_UrlsMatchServers ==
  \A x \in Keys(urls) :
    HasServer(x) =>
      /\ urls[x].port = Server(x).port
      /\ urls[x].mount = Server(x).mount

=============================================================================
